---- MODULE Spec2Model ----
(***************************************************************************)
(* Model of the ANESE emulator core: the 6502 CPU interpreter (CPU::step,  *)
(* CPU::service_interrupt, CPU::power_cycle, CPU::reset and the stack      *)
(* helpers), together with the memory bus and the interrupt lines the CPU  *)
(* consumes.                                                               *)
(***************************************************************************)
EXTENDS Integers, Sequences, FiniteSets, Bags, TLC

(* ------------------------------ bounds -------------------------------- *)

\* number of CPU calls (step, power_cycle, reset) explored per run
MaxCalls == 5

\* number of interrupt requests explored per run
MaxRequests == 3

\* number of calls of step in the runs that start from chosen registers
MaxUnitCalls == 2

(* --------------------------- integer helpers --------------------------- *)

u8(v) == v % 256

u16(v) == v % 65536

\* i8(b): the byte b read as a signed 8-bit value
i8(b) == IF b >= 128 THEN b - 256 ELSE b

nth_bit(v, n) == (v \div (2 ^ n)) % 2

RECURSIVE BitAnd(_, _, _)
BitAnd(a, b, n) ==
  IF n = 0 THEN 0
  ELSE (a % 2) * (b % 2) + 2 * BitAnd(a \div 2, b \div 2, n - 1)

RECURSIVE BitOr(_, _, _)
BitOr(a, b, n) ==
  IF n = 0 THEN 0
  ELSE (IF (a % 2) + (b % 2) > 0 THEN 1 ELSE 0) + 2 * BitOr(a \div 2, b \div 2, n - 1)

RECURSIVE BitXor(_, _, _)
BitXor(a, b, n) ==
  IF n = 0 THEN 0
  ELSE (((a % 2) + (b % 2)) % 2) + 2 * BitXor(a \div 2, b \div 2, n - 1)

BoolBit(b) == IF b THEN 1 ELSE 0

\* an int stored in a one-bit flag of P: any non-zero value gives 1
IntBit(v) == BoolBit(v # 0)

(* ------------------- status register P (bit fields) -------------------- *)

\* bit positions of the flags inside reg.p.raw
Flag == [c |-> 0, z |-> 1, i |-> 2, d |-> 3, b |-> 4, u |-> 5, v |-> 6, n |-> 7]

GetFlag(p, f) == nth_bit(p, f)

SetFlag(p, f, b) == p - nth_bit(p, f) * (2 ^ f) + b * (2 ^ f)

(* ----------------------------- memory bus ------------------------------ *)

\* content of every cell that no image and no write has set
Fill == 0

Read(m, addr) == IF addr \in DOMAIN m THEN m[addr] ELSE Fill

Write(m, addr, val) ==
  [a \in (DOMAIN m) \cup {addr} |-> IF a = addr THEN val ELSE m[a]]

\* little-endian word, two consecutive reads
read16(m, addr) == Read(m, addr) + 256 * Read(m, u16(addr + 1))

\* the high byte is fetched from the same page as the low byte
read16_zpg(m, addr) ==
  Read(m, addr) + 256 * Read(m, (addr - (addr % 256)) + ((addr + 1) % 256))

(* --------------------------- interrupt lines --------------------------- *)

Kinds == {"IRQ", "NMI", "RESET"}

\* get(): highest-priority pending kind, RESET > NMI > IRQ
Get(lines) ==
  IF "RESET" \in lines THEN "RESET"
  ELSE IF "NMI" \in lines THEN "NMI"
  ELSE IF "IRQ" \in lines THEN "IRQ"
  ELSE "NONE"

Request(lines, kind) == lines \cup {kind}

Service(lines, kind) == lines \ {kind}

(* ----------------------------- opcode table ---------------------------- *)

OpcodeRows ==
  {
    <<0, "BRK", "impl", 7, FALSE>>, <<1, "ORA", "Xind", 6, FALSE>>, <<5, "ORA", "zpg_", 3, FALSE>>,
    <<6, "ASL", "zpg_", 5, FALSE>>, <<8, "PHP", "impl", 3, FALSE>>, <<9, "ORA", "imm", 2, FALSE>>,
    <<10, "ASL", "acc", 2, FALSE>>, <<13, "ORA", "abs_", 4, FALSE>>, <<14, "ASL", "abs_", 6, FALSE>>,
    <<16, "BPL", "rel", 2, FALSE>>, <<17, "ORA", "indY", 5, TRUE>>, <<21, "ORA", "zpgX", 4, FALSE>>,
    <<22, "ASL", "zpgX", 6, FALSE>>, <<24, "CLC", "impl", 2, FALSE>>, <<25, "ORA", "absY", 4, TRUE>>,
    <<29, "ORA", "absX", 4, TRUE>>, <<30, "ASL", "absX", 7, FALSE>>, <<32, "JSR", "abs_", 6, FALSE>>,
    <<33, "AND", "Xind", 6, FALSE>>, <<36, "BIT", "zpg_", 3, FALSE>>, <<37, "AND", "zpg_", 3, FALSE>>,
    <<38, "ROL", "zpg_", 5, FALSE>>, <<40, "PLP", "impl", 4, FALSE>>, <<41, "AND", "imm", 2, FALSE>>,
    <<42, "ROL", "acc", 2, FALSE>>, <<44, "BIT", "abs_", 4, FALSE>>, <<45, "AND", "abs_", 4, FALSE>>,
    <<46, "ROL", "abs_", 6, FALSE>>, <<48, "BMI", "rel", 2, FALSE>>, <<49, "AND", "indY", 5, TRUE>>,
    <<53, "AND", "zpgX", 4, FALSE>>, <<54, "ROL", "zpgX", 6, FALSE>>, <<56, "SEC", "impl", 2, FALSE>>,
    <<57, "AND", "absY", 4, TRUE>>, <<61, "AND", "absX", 4, TRUE>>, <<62, "ROL", "absX", 7, FALSE>>,
    <<64, "RTI", "impl", 6, FALSE>>, <<65, "EOR", "Xind", 6, FALSE>>, <<69, "EOR", "zpg_", 3, FALSE>>,
    <<70, "LSR", "zpg_", 5, FALSE>>, <<72, "PHA", "impl", 3, FALSE>>, <<73, "EOR", "imm", 2, FALSE>>,
    <<74, "LSR", "acc", 2, FALSE>>, <<76, "JMP", "abs_", 3, FALSE>>, <<77, "EOR", "abs_", 4, FALSE>>,
    <<78, "LSR", "abs_", 6, FALSE>>, <<80, "BVC", "rel", 2, FALSE>>, <<81, "EOR", "indY", 5, TRUE>>,
    <<85, "EOR", "zpgX", 4, FALSE>>, <<86, "LSR", "zpgX", 6, FALSE>>, <<88, "CLI", "impl", 2, FALSE>>,
    <<89, "EOR", "absY", 4, TRUE>>, <<93, "EOR", "absX", 4, TRUE>>, <<94, "LSR", "absX", 7, FALSE>>,
    <<96, "RTS", "impl", 6, FALSE>>, <<97, "ADC", "Xind", 6, FALSE>>, <<101, "ADC", "zpg_", 3, FALSE>>,
    <<102, "ROR", "zpg_", 5, FALSE>>, <<104, "PLA", "impl", 4, FALSE>>, <<105, "ADC", "imm", 2, FALSE>>,
    <<106, "ROR", "acc", 2, FALSE>>, <<108, "JMP", "ind_", 5, FALSE>>, <<109, "ADC", "abs_", 4, FALSE>>,
    <<110, "ROR", "abs_", 6, FALSE>>, <<112, "BVS", "rel", 2, FALSE>>, <<113, "ADC", "indY", 5, TRUE>>,
    <<117, "ADC", "zpgX", 4, FALSE>>, <<118, "ROR", "zpgX", 6, FALSE>>, <<120, "SEI", "impl", 2, FALSE>>,
    <<121, "ADC", "absY", 4, TRUE>>, <<125, "ADC", "absX", 4, TRUE>>, <<126, "ROR", "absX", 7, FALSE>>,
    <<129, "STA", "Xind", 6, FALSE>>, <<132, "STY", "zpg_", 3, FALSE>>, <<133, "STA", "zpg_", 3, FALSE>>,
    <<134, "STX", "zpg_", 3, FALSE>>, <<136, "DEY", "impl", 2, FALSE>>, <<138, "TXA", "impl", 2, FALSE>>,
    <<140, "STY", "abs_", 4, FALSE>>, <<141, "STA", "abs_", 4, FALSE>>, <<142, "STX", "abs_", 4, FALSE>>,
    <<144, "BCC", "rel", 2, FALSE>>, <<145, "STA", "indY", 6, FALSE>>, <<148, "STY", "zpgX", 4, FALSE>>,
    <<149, "STA", "zpgX", 4, FALSE>>, <<150, "STX", "zpgY", 4, FALSE>>, <<152, "TYA", "impl", 2, FALSE>>,
    <<153, "STA", "absY", 5, FALSE>>, <<154, "TXS", "impl", 2, FALSE>>, <<157, "STA", "absX", 5, FALSE>>,
    <<160, "LDY", "imm", 2, FALSE>>, <<161, "LDA", "Xind", 6, FALSE>>, <<162, "LDX", "imm", 2, FALSE>>,
    <<164, "LDY", "zpg_", 3, FALSE>>, <<165, "LDA", "zpg_", 3, FALSE>>, <<166, "LDX", "zpg_", 3, FALSE>>,
    <<168, "TAY", "impl", 2, FALSE>>, <<169, "LDA", "imm", 2, FALSE>>, <<170, "TAX", "impl", 2, FALSE>>,
    <<172, "LDY", "abs_", 4, FALSE>>, <<173, "LDA", "abs_", 4, FALSE>>, <<174, "LDX", "abs_", 4, FALSE>>,
    <<176, "BCS", "rel", 2, FALSE>>, <<177, "LDA", "indY", 5, TRUE>>, <<180, "LDY", "zpgX", 4, FALSE>>,
    <<181, "LDA", "zpgX", 4, FALSE>>, <<182, "LDX", "zpgY", 4, FALSE>>, <<184, "CLV", "impl", 2, FALSE>>,
    <<185, "LDA", "absY", 4, TRUE>>, <<186, "TSX", "impl", 2, FALSE>>, <<188, "LDY", "absX", 4, TRUE>>,
    <<189, "LDA", "absX", 4, TRUE>>, <<190, "LDX", "absY", 4, TRUE>>, <<192, "CPY", "imm", 2, FALSE>>,
    <<193, "CMP", "Xind", 6, FALSE>>, <<196, "CPY", "zpg_", 3, FALSE>>, <<197, "CMP", "zpg_", 3, FALSE>>,
    <<198, "DEC", "zpg_", 5, FALSE>>, <<200, "INY", "impl", 2, FALSE>>, <<201, "CMP", "imm", 2, FALSE>>,
    <<202, "DEX", "impl", 2, FALSE>>, <<204, "CPY", "abs_", 4, FALSE>>, <<205, "CMP", "abs_", 4, FALSE>>,
    <<206, "DEC", "abs_", 6, FALSE>>, <<208, "BNE", "rel", 2, FALSE>>, <<209, "CMP", "indY", 5, TRUE>>,
    <<213, "CMP", "zpgX", 4, FALSE>>, <<214, "DEC", "zpgX", 6, FALSE>>, <<216, "CLD", "impl", 2, FALSE>>,
    <<217, "CMP", "absY", 4, TRUE>>, <<221, "CMP", "absX", 4, TRUE>>, <<222, "DEC", "absX", 7, FALSE>>,
    <<224, "CPX", "imm", 2, FALSE>>, <<225, "SBC", "Xind", 6, FALSE>>, <<228, "CPX", "zpg_", 3, FALSE>>,
    <<229, "SBC", "zpg_", 3, FALSE>>, <<230, "INC", "zpg_", 5, FALSE>>, <<232, "INX", "impl", 2, FALSE>>,
    <<233, "SBC", "imm", 2, FALSE>>, <<234, "NOP", "impl", 2, FALSE>>, <<236, "CPX", "abs_", 4, FALSE>>,
    <<237, "SBC", "abs_", 4, FALSE>>, <<238, "INC", "abs_", 6, FALSE>>, <<240, "BEQ", "rel", 2, FALSE>>,
    <<241, "SBC", "indY", 5, TRUE>>, <<245, "SBC", "zpgX", 4, FALSE>>, <<246, "INC", "zpgX", 6, FALSE>>,
    <<248, "SED", "impl", 2, FALSE>>, <<249, "SBC", "absY", 4, TRUE>>, <<253, "SBC", "absX", 4, TRUE>>,
    <<254, "INC", "absX", 7, FALSE>>
  }

InvalidOpcode == [instr |-> "INVALID", addrm |-> "INVALID", cycles |-> 0, check_pg_cross |-> FALSE]

Opcodes ==
  [op \in 0..255 |->
     IF \E r \in OpcodeRows : r[1] = op
     THEN LET r == CHOOSE r \in OpcodeRows : r[1] = op
          IN [instr |-> r[2], addrm |-> r[3], cycles |-> r[4], check_pg_cross |-> r[5]]
     ELSE InvalidOpcode]

(* ------------------------------ CPU core ------------------------------- *)

\* A machine value m gathers what one CPU call reads and writes:
\*   reg, cycles, state   the CPU's own fields
\*   mem, interrupt       the bus and the interrupt lines it is bound to
\*   serviced, fetched    observations of the call in progress: the kinds
\*                        handed to interrupt.service(), and the opcode byte
\*                        fetched (-1 when none was)
\*   ret                  the value the call returns

Running == "Running"

Halted == "Halted"

s_push(m, val) ==
  [m EXCEPT !.mem = Write(m.mem, 256 + m.reg.s, val),
            !.reg.s = u8(m.reg.s + 255)]

\* variant: the low byte is pushed before the high byte
s_push16_lo_first(m, val) == s_push(s_push(m, val % 256), val \div 256)

s_push16(m, val) == s_push(s_push(m, val \div 256), val % 256)

\* variant: the incremented stack pointer is not wrapped to 8 bits
s_pull_val_nowrap(m) == Read(m.mem, 256 + m.reg.s + 1)

\* s_pull() is split in the byte it returns and the machine it leaves
s_pull_val(m) == Read(m.mem, 256 + u8(m.reg.s + 1))

s_pull(m) == [m EXCEPT !.reg.s = u8(m.reg.s + 1)]

s_pull16_val(m) == s_pull_val(m) + 256 * s_pull_val(s_pull(m))

s_pull16(m) == s_pull(s_pull(m))

\* variant: the state is not set back to Running
power_cycle_keep_state(m) ==
  [m EXCEPT !.cycles = 0,
            !.reg.p = 52,
            !.reg.a = 0,
            !.reg.x = 0,
            !.reg.y = 0,
            !.reg.s = 253]

\* variant: A is not cleared
power_cycle_keep_a(m) ==
  [m EXCEPT !.cycles = 0,
            !.reg.p = 52,
            !.reg.x = 0,
            !.reg.y = 0,
            !.reg.s = 253,
            !.state = Running]

power_cycle(m) ==
  [m EXCEPT !.cycles = 0,
            !.reg.p = 52,
            !.reg.a = 0,
            !.reg.x = 0,
            !.reg.y = 0,
            !.reg.s = 253,
            !.state = Running]

\* variant: the stack pointer is lowered by 1
reset_dec1(m) ==
  [m EXCEPT !.reg.s = u8(m.reg.s + 255),
            !.reg.p = SetFlag(m.reg.p, Flag.i, 1),
            !.state = Running]

reset(m) ==
  [m EXCEPT !.reg.s = u8(m.reg.s + 253),
            !.reg.p = SetFlag(m.reg.p, Flag.i, 1),
            !.state = Running]

\* the vector load of service_interrupt (the switch on the kind)
load_vector(m, interrupt, brk) ==
  CASE interrupt = "IRQ" ->
         IF brk \/ GetFlag(m.reg.p, Flag.i) = 0
         THEN [m EXCEPT !.reg.pc = read16(m.mem, 65534)]
         ELSE m
    [] interrupt = "RESET" -> [m EXCEPT !.reg.pc = read16(m.mem, 65532)]
    [] interrupt = "NMI" -> [m EXCEPT !.reg.pc = read16(m.mem, 65530)]
    [] OTHER -> m

\* variant: every pending line is cleared, not only the serviced one
service_interrupt_clear_all(m, interrupt, brk) ==
  LET m1 == [m EXCEPT !.reg.p = SetFlag(m.reg.p, Flag.i, 1)]
      m2 == IF interrupt # "RESET"
            THEN s_push(s_push16(m1, m1.reg.pc), m1.reg.p)
            ELSE m1
      m3 == [m2 EXCEPT !.cycles = @ + 7]
      m4 == load_vector(m3, interrupt, brk)
  IN [m4 EXCEPT !.interrupt = {},
                !.serviced = Append(m4.serviced, interrupt)]

\* variant: PC and P are pushed for RESET too
service_interrupt_push_on_reset(m, interrupt, brk) ==
  LET m1 == [m EXCEPT !.reg.p = SetFlag(m.reg.p, Flag.i, 1)]
      m2 == s_push(s_push16(m1, m1.reg.pc), m1.reg.p)
      m3 == [m2 EXCEPT !.cycles = @ + 7]
      m4 == load_vector(m3, interrupt, brk)
  IN [m4 EXCEPT !.interrupt = Service(m4.interrupt, interrupt),
                !.serviced = Append(m4.serviced, interrupt)]

service_interrupt(m, interrupt, brk) ==
  LET m1 == [m EXCEPT !.reg.p = SetFlag(m.reg.p, Flag.i, 1)]
      m2 == IF interrupt # "RESET"
            THEN s_push(s_push16(m1, m1.reg.pc), m1.reg.p)
            ELSE m1
      m3 == [m2 EXCEPT !.cycles = @ + 7]
      m4 == load_vector(m3, interrupt, brk)
  IN [m4 EXCEPT !.interrupt = Service(m4.interrupt, interrupt),
                !.serviced = Append(m4.serviced, interrupt)]

\* variant: no page cross is seen when the indexed sum wrapped past $FFFF
did_pg_cross_no_wrap(a, b) == a >= 0 /\ (a \div 256) # (u16(b) \div 256)

did_pg_cross(a, b) == (u16(a) \div 256) # (u16(b) \div 256)

\* variant: ind reads the pointer with read16, two consecutive addresses
get_operand_addr_ind_read16(m, opcode) ==
  LET pc == m.reg.pc
      arg8 == Read(m.mem, pc)
      arg16 == read16(m.mem, pc)
      m8 == [m EXCEPT !.reg.pc = u16(pc + 1)]
      m16 == [m EXCEPT !.reg.pc = u16(pc + 2)]
      am == opcode.addrm
      r == CASE am = "abs_" -> [m |-> m16, addr |-> arg16]
             [] am = "absX" -> [m |-> m16, addr |-> u16(arg16 + m.reg.x)]
             [] am = "absY" -> [m |-> m16, addr |-> u16(arg16 + m.reg.y)]
             [] am = "ind_" -> [m |-> m16, addr |-> read16(m.mem, arg16)]
             [] am = "indY" -> [m |-> m8, addr |-> u16(read16_zpg(m.mem, arg8) + m.reg.y)]
             [] am = "Xind" -> [m |-> m8, addr |-> read16_zpg(m.mem, u8(arg8 + m.reg.x))]
             [] am = "zpg_" -> [m |-> m8, addr |-> arg8]
             [] am = "zpgX" -> [m |-> m8, addr |-> u8(arg8 + m.reg.x)]
             [] am = "zpgY" -> [m |-> m8, addr |-> u8(arg8 + m.reg.y)]
             [] am = "rel" -> [m |-> m8, addr |-> pc]
             [] am = "imm" -> [m |-> m8, addr |-> pc]
             [] am = "acc" -> [m |-> m, addr |-> m.reg.a]
             [] am = "impl" -> [m |-> m, addr |-> 17]
             [] OTHER -> [m |-> m, addr |-> 2989]
      cross == IF opcode.check_pg_cross
               THEN CASE am = "absX" -> BoolBit(did_pg_cross(r.addr - m.reg.x, r.addr))
                      [] am = "absY" -> BoolBit(did_pg_cross(r.addr - m.reg.y, r.addr))
                      [] am = "indY" -> BoolBit(did_pg_cross(r.addr - m.reg.y, r.addr))
                      [] OTHER -> 0
               ELSE 0
  IN [m |-> [r.m EXCEPT !.cycles = @ + cross], addr |-> r.addr]

\* get_operand_addr returns the machine (PC advanced past the operand, the
\* page-cross cycle added) and the operand address
get_operand_addr(m, opcode) ==
  LET pc == m.reg.pc
      arg8 == Read(m.mem, pc)
      arg16 == read16(m.mem, pc)
      m8 == [m EXCEPT !.reg.pc = u16(pc + 1)]
      m16 == [m EXCEPT !.reg.pc = u16(pc + 2)]
      am == opcode.addrm
      r == CASE am = "abs_" -> [m |-> m16, addr |-> arg16]
             [] am = "absX" -> [m |-> m16, addr |-> u16(arg16 + m.reg.x)]
             [] am = "absY" -> [m |-> m16, addr |-> u16(arg16 + m.reg.y)]
             [] am = "ind_" -> [m |-> m16, addr |-> read16_zpg(m.mem, arg16)]
             [] am = "indY" -> [m |-> m8, addr |-> u16(read16_zpg(m.mem, arg8) + m.reg.y)]
             [] am = "Xind" -> [m |-> m8, addr |-> read16_zpg(m.mem, u8(arg8 + m.reg.x))]
             [] am = "zpg_" -> [m |-> m8, addr |-> arg8]
             [] am = "zpgX" -> [m |-> m8, addr |-> u8(arg8 + m.reg.x)]
             [] am = "zpgY" -> [m |-> m8, addr |-> u8(arg8 + m.reg.y)]
             [] am = "rel" -> [m |-> m8, addr |-> pc]
             [] am = "imm" -> [m |-> m8, addr |-> pc]
             [] am = "acc" -> [m |-> m, addr |-> m.reg.a]
             [] am = "impl" -> [m |-> m, addr |-> 17]
             [] OTHER -> [m |-> m, addr |-> 2989]
      cross == IF opcode.check_pg_cross
               THEN CASE am = "absX" -> BoolBit(did_pg_cross(r.addr - m.reg.x, r.addr))
                      [] am = "absY" -> BoolBit(did_pg_cross(r.addr - m.reg.y, r.addr))
                      [] am = "indY" -> BoolBit(did_pg_cross(r.addr - m.reg.y, r.addr))
                      [] OTHER -> 0
               ELSE 0
  IN [m |-> [r.m EXCEPT !.cycles = @ + cross], addr |-> r.addr]

set_zn(m, val) ==
  [m EXCEPT !.reg.p = SetFlag(SetFlag(m.reg.p, Flag.z, BoolBit(u8(val) = 0)),
                              Flag.n, nth_bit(u8(val), 7))]

SetP(m, f, b) == [m EXCEPT !.reg.p = SetFlag(m.reg.p, f, b)]

\* variant: a taken branch to another page costs one cycle more, not two
branch_cross_one(m, cond, addr) ==
  IF ~cond THEN m
  ELSE LET offset == i8(Read(m.mem, addr))
           extra == IF did_pg_cross(m.reg.pc, m.reg.pc + offset) THEN 1 ELSE 0
       IN [m EXCEPT !.cycles = @ + 1 + extra,
                    !.reg.pc = u16(m.reg.pc + offset)]

branch(m, cond, addr) ==
  IF ~cond THEN m
  ELSE LET offset == i8(Read(m.mem, addr))
           extra == IF did_pg_cross(m.reg.pc, m.reg.pc + offset) THEN 2 ELSE 0
       IN [m EXCEPT !.cycles = @ + 1 + extra,
                    !.reg.pc = u16(m.reg.pc + offset)]

\* variant: the overflow test leaves out the complement of A ^ val
adc_v_plain(m, val) ==
  LET a == m.reg.a
      sum == u16(a + val + GetFlag(m.reg.p, Flag.c))
      v == BitAnd(BitAnd(BitXor(a, val, 8), BitXor(a, u8(sum), 8), 8), 128, 8)
      p1 == SetFlag(m.reg.p, Flag.c, BoolBit(sum > 255))
      p2 == SetFlag(p1, Flag.z, BoolBit(u8(sum) = 0))
      p3 == SetFlag(p2, Flag.v, IntBit(v))
      p4 == SetFlag(p3, Flag.n, nth_bit(u8(sum), 7))
  IN [m EXCEPT !.reg.p = p4, !.reg.a = u8(sum)]

\* ADC: sum is the u16 the code computes
adc(m, val) ==
  LET a == m.reg.a
      sum == u16(a + val + GetFlag(m.reg.p, Flag.c))
      v == BitAnd(BitAnd(255 - BitXor(a, val, 8), BitXor(a, u8(sum), 8), 8), 128, 8)
      p1 == SetFlag(m.reg.p, Flag.c, BoolBit(sum > 255))
      p2 == SetFlag(p1, Flag.z, BoolBit(u8(sum) = 0))
      p3 == SetFlag(p2, Flag.v, IntBit(v))
      p4 == SetFlag(p3, Flag.n, nth_bit(u8(sum), 7))
  IN [m EXCEPT !.reg.p = p4, !.reg.a = u8(sum)]

\* variant: the operand is complemented as a byte, so the sum has 9 bits
sbc_byte_complement(m, val) ==
  LET a == m.reg.a
      sum == u16(a + (255 - val) + GetFlag(m.reg.p, Flag.c))
      v == BitAnd(BitAnd(255 - BitXor(a, 255 - val, 8), BitXor(a, u8(sum), 8), 8), 128, 8)
      p1 == SetFlag(m.reg.p, Flag.c, BoolBit(~(sum > 255)))
      p2 == SetFlag(p1, Flag.z, BoolBit(u8(sum) = 0))
      p3 == SetFlag(p2, Flag.v, IntBit(v))
      p4 == SetFlag(p3, Flag.n, nth_bit(u8(sum), 7))
  IN [m EXCEPT !.reg.p = p4, !.reg.a = u8(sum)]

\* ~val is computed on the promoted int: -val - 1; the u16 sum wraps
sbc(m, val) ==
  LET a == m.reg.a
      sum == u16(a + (0 - val - 1) + GetFlag(m.reg.p, Flag.c))
      v == BitAnd(BitAnd(255 - BitXor(a, 255 - val, 8), BitXor(a, u8(sum), 8), 8), 128, 8)
      p1 == SetFlag(m.reg.p, Flag.c, BoolBit(~(sum > 255)))
      p2 == SetFlag(p1, Flag.z, BoolBit(u8(sum) = 0))
      p3 == SetFlag(p2, Flag.v, IntBit(v))
      p4 == SetFlag(p3, Flag.n, nth_bit(u8(sum), 7))
  IN [m EXCEPT !.reg.p = p4, !.reg.a = u8(sum)]

compare(m, r, val) ==
  set_zn(SetP(m, Flag.c, BoolBit(r >= val)), r - val)

\* the four shifts: new value and the bit moved into C
lsr_val(v, c) == [val |-> v \div 2, c |-> nth_bit(v, 0)]

asl_val(v, c) == [val |-> u8(v * 2), c |-> nth_bit(v, 7)]

ror_val(v, c) == [val |-> (v \div 2) + 128 * c, c |-> nth_bit(v, 0)]

rol_val(v, c) == [val |-> u8(v * 2) + c, c |-> nth_bit(v, 7)]

\* shared shape of LSR / ASL / ROR / ROL: on A in acc mode, else on mem[addr]
shift(m, opcode, addr, r_acc, r_mem) ==
  IF opcode.addrm = "acc"
  THEN set_zn([SetP(m, Flag.c, r_acc.c) EXCEPT !.reg.a = r_acc.val], r_acc.val)
  ELSE LET m1 == set_zn(SetP(m, Flag.c, r_mem.c), r_mem.val)
       IN [m1 EXCEPT !.mem = Write(m1.mem, addr, r_mem.val)]

\* variant: the default case only prints the diagnostic
unimplemented_no_halt(m) == m

\* the default case of the instruction switch
unimplemented(m) == [m EXCEPT !.state = Halted]

\* variant: the pulled byte is stored with bit 5 cleared
pull_status_clear_u(m) == [s_pull(m) EXCEPT !.reg.p = BitAnd(s_pull_val(m), 223, 8)]

\* variant: the pulled byte is stored in P as it is
pull_status_raw(m) == [s_pull(m) EXCEPT !.reg.p = s_pull_val(m)]

\* reg.p.raw = s_pull() | 0x20, the first statement of PLP and of RTI
pull_status(m) == [s_pull(m) EXCEPT !.reg.p = BitOr(s_pull_val(m), 32, 8)]

\* the instruction switch of CPU::step
execute(m, opcode, addr) ==
  LET in == opcode.instr
      val == Read(m.mem, addr)
      c == GetFlag(m.reg.p, Flag.c)
      P(f) == GetFlag(m.reg.p, f) = 1
  IN CASE in = "JMP" -> [m EXCEPT !.reg.pc = addr]
       [] in = "LDX" -> set_zn([m EXCEPT !.reg.x = val], val)
       [] in = "STX" -> [m EXCEPT !.mem = Write(m.mem, addr, m.reg.x)]
       [] in = "JSR" -> [s_push16(m, u16(m.reg.pc + 65535)) EXCEPT !.reg.pc = addr]
       [] in = "NOP" -> m
       [] in = "SEC" -> SetP(m, Flag.c, 1)
       [] in = "CLC" -> SetP(m, Flag.c, 0)
       [] in = "CLI" -> SetP(m, Flag.i, 0)
       [] in = "BCS" -> branch(m, P(Flag.c), addr)
       [] in = "BCC" -> branch(m, ~P(Flag.c), addr)
       [] in = "BEQ" -> branch(m, P(Flag.z), addr)
       [] in = "BNE" -> branch(m, ~P(Flag.z), addr)
       [] in = "LDA" -> set_zn([m EXCEPT !.reg.a = val], val)
       [] in = "STA" -> [m EXCEPT !.mem = Write(m.mem, addr, m.reg.a)]
       [] in = "BIT" -> SetP(SetP(SetP(m, Flag.z, BoolBit(BitAnd(m.reg.a, val, 8) = 0)),
                                  Flag.v, nth_bit(val, 6)),
                             Flag.n, nth_bit(val, 7))
       [] in = "BVS" -> branch(m, P(Flag.v), addr)
       [] in = "BVC" -> branch(m, ~P(Flag.v), addr)
       [] in = "BPL" -> branch(m, ~P(Flag.n), addr)
       [] in = "RTS" -> [s_pull16(m) EXCEPT !.reg.pc = u16(s_pull16_val(m) + 1)]
       [] in = "AND" -> set_zn([m EXCEPT !.reg.a = BitAnd(m.reg.a, val, 8)],
                               BitAnd(m.reg.a, val, 8))
       [] in = "SEI" -> SetP(m, Flag.i, 1)
       [] in = "SED" -> SetP(m, Flag.d, 1)
       [] in = "PHP" -> s_push(m, m.reg.p)
       [] in = "PLA" -> set_zn([s_pull(m) EXCEPT !.reg.a = s_pull_val(m)], s_pull_val(m))
       [] in = "CMP" -> compare(m, m.reg.a, val)
       [] in = "CLD" -> SetP(m, Flag.d, 0)
       [] in = "PHA" -> s_push(m, m.reg.a)
       [] in = "PLP" -> pull_status(m)
       [] in = "BMI" -> branch(m, P(Flag.n), addr)
       [] in = "ORA" -> set_zn([m EXCEPT !.reg.a = BitOr(m.reg.a, val, 8)],
                               BitOr(m.reg.a, val, 8))
       [] in = "CLV" -> SetP(m, Flag.v, 0)
       [] in = "EOR" -> set_zn([m EXCEPT !.reg.a = BitXor(m.reg.a, val, 8)],
                               BitXor(m.reg.a, val, 8))
       [] in = "ADC" -> adc(m, val)
       [] in = "SBC" -> sbc(m, val)
       [] in = "LDY" -> set_zn([m EXCEPT !.reg.y = val], val)
       [] in = "CPY" -> compare(m, m.reg.y, val)
       [] in = "CPX" -> compare(m, m.reg.x, val)
       [] in = "INY" -> set_zn([m EXCEPT !.reg.y = u8(m.reg.y + 1)], m.reg.y + 1)
       [] in = "INX" -> set_zn([m EXCEPT !.reg.x = u8(m.reg.x + 1)], m.reg.x + 1)
       [] in = "DEY" -> set_zn([m EXCEPT !.reg.y = u8(m.reg.y + 255)], m.reg.y + 255)
       [] in = "DEX" -> set_zn([m EXCEPT !.reg.x = u8(m.reg.x + 255)], m.reg.x + 255)
       [] in = "STY" -> [m EXCEPT !.mem = Write(m.mem, addr, m.reg.y)]
       [] in = "TAY" -> set_zn([m EXCEPT !.reg.y = m.reg.a], m.reg.a)
       [] in = "TAX" -> set_zn([m EXCEPT !.reg.x = m.reg.a], m.reg.a)
       [] in = "TYA" -> set_zn([m EXCEPT !.reg.a = m.reg.y], m.reg.y)
       [] in = "TXA" -> set_zn([m EXCEPT !.reg.a = m.reg.x], m.reg.x)
       [] in = "TSX" -> set_zn([m EXCEPT !.reg.x = m.reg.s], m.reg.s)
       [] in = "TXS" -> [m EXCEPT !.reg.s = m.reg.x]
       [] in = "RTI" -> LET m1 == pull_status(m)
                        IN [s_pull16(m1) EXCEPT !.reg.pc = s_pull16_val(m1)]
       [] in = "BRK" -> service_interrupt(m, "IRQ", TRUE)
       [] in = "LSR" -> shift(m, opcode, addr, lsr_val(m.reg.a, c), lsr_val(val, c))
       [] in = "ASL" -> shift(m, opcode, addr, asl_val(m.reg.a, c), asl_val(val, c))
       [] in = "ROR" -> shift(m, opcode, addr, ror_val(m.reg.a, c), ror_val(val, c))
       [] in = "ROL" -> shift(m, opcode, addr, rol_val(m.reg.a, c), rol_val(val, c))
       [] in = "INC" -> [set_zn(m, val + 1) EXCEPT !.mem = Write(m.mem, addr, u8(val + 1))]
       [] in = "DEC" -> [set_zn(m, val + 255) EXCEPT !.mem = Write(m.mem, addr, u8(val + 255))]
       [] OTHER -> unimplemented(m)

\* lines 695-948: fetch, decode, execute one instruction
fetch_execute(m) ==
  LET op == Read(m.mem, m.reg.pc)
      m1 == [m EXCEPT !.reg.pc = u16(m.reg.pc + 1), !.fetched = op]
      opcode == Opcodes[op]
      oa == get_operand_addr(m1, opcode)
      m2 == execute(oa.m, opcode, oa.addr)
  IN [m2 EXCEPT !.cycles = @ + opcode.cycles]

\* variant: the interrupt branch does not return, the fetch follows it
step_no_return(m) ==
  LET old_cycles == m.cycles
      interrupt == Get(m.interrupt)
      m0 == [m EXCEPT !.serviced = <<>>, !.fetched = -1]
      m1 == IF interrupt # "NONE"
            THEN fetch_execute(service_interrupt(m0, interrupt, FALSE))
            ELSE fetch_execute(m0)
  IN [m1 EXCEPT !.ret = m1.cycles - old_cycles]

step(m) ==
  LET old_cycles == m.cycles
      interrupt == Get(m.interrupt)
      m0 == [m EXCEPT !.serviced = <<>>, !.fetched = -1]
      m1 == IF interrupt # "NONE"
            THEN service_interrupt(m0, interrupt, FALSE)
            ELSE fetch_execute(m0)
  IN [m1 EXCEPT !.ret = m1.cycles - old_cycles]

(* ------------------------------- WideNES ------------------------------- *)
(* The engine is a record w = [tiles, pad, last_scroll, curr_scroll,       *)
(* scroll, h, pan]; each handler is a function from w and the values it     *)
(* reads from the PPU, the mapper or the event to the new w.                *)

\* the 16x16-pixel blocks of a 256x240 tile: fill[16][15], done[16][15]
Blocks == (0..15) \X (0..14)

\* a map entry that operator[] created and nothing filled in
Null == [ptr |-> "nullptr"]

\* new Tile: done = {{false}}, fill = {{0}}, fb = {0}, fb_new = {0}.  fill
\* holds the non-zero counters only, done is the set of blocks whose flag is
\* true; fb and fb_new hold, for each block that is not all zero, the
\* region of the block (see RegionAt).
NewTile == [ptr |-> "tile", fill |-> <<>>, done |-> {}, fb |-> <<>>, fb_new |-> <<>>]

\* The 16x16 region of block b in a pixel buffer of a tile.  A region is the
\* sequence of the rectangles painted into it that can still show, oldest
\* first: [colour, x, nx, y, ny] is a rectangle of nx columns from column x
\* and ny rows from row y of the block, taken from the picture `colour`.
\* The empty sequence is the all-zero region.
RegionAt(buffer, b) == IF b \in DOMAIN buffer THEN buffer[b] ELSE <<>>

\* a rectangle painted over a region; one that covers the block hides the rest
Paint(region, rect) ==
  IF rect.nx = 16 /\ rect.ny = 16 THEN <<rect>> ELSE Append(region, rect)

\* tile->fill[bx][by]
FillAt(tile, b) == IF b \in DOMAIN tile.fill THEN tile.fill[b] ELSE 0

\* tiles[tx][ty]: operator[] yields nullptr for a key that is not in the map
TileAt(tiles, t) == IF t \in DOMAIN tiles THEN tiles[t] ELSE Null

Max(a, b) == IF a > b THEN a ELSE b

\* the function f itself, held as a table of its values
Table(f) == f @@ <<>>

Abs(a) == IF a < 0 THEN 0 - a ELSE a

\* PPURegisters: the CPU addresses of PPUMASK, PPUSCROLL and PPUADDR
PPUMASK == 8193

PPUSCROLL == 8197

PPUADDR == 8198

\* ppu_write_start_handler: nothing
ppu_write_start_handler(w, addr, val) == w

\* variant: x is taken when the latch is 0 and y when it is 1
write_end_ppuscroll_swapped(w, val, scroll_latch) ==
  [w EXCEPT !.h.ppuscroll.curr =
     IF scroll_latch = 0 THEN [@ EXCEPT !.x = val] ELSE [@ EXCEPT !.y = val]]

\* ppu_write_end_handler for PPUSCROLL ($2005)
write_end_ppuscroll(w, val, scroll_latch) ==
  [w EXCEPT !.h.ppuscroll.curr =
     IF scroll_latch = 1 THEN [@ EXCEPT !.x = val] ELSE [@ EXCEPT !.y = val]]

\* ppu_write_end_handler for PPUADDR ($2006)
write_end_ppuaddr(w, scroll_latch, scanline, is_rendering, coarse_x, coarse_y) ==
  [w EXCEPT !.h.ppuaddr.did_change = TRUE,
            !.h.ppuaddr.changed = [on_scanline |-> scanline,
                                   while_rendering |-> is_rendering],
            !.h.ppuaddr.new_scroll =
              IF scroll_latch = 1 THEN [@ EXCEPT !.x = u8(8 * coarse_x)]
                                  ELSE [@ EXCEPT !.y = u8(8 * coarse_y)]]

\* ppu_write_end_handler: the switch on addr; ppu is what the handler reads
\* from the PPU, [scroll_latch, scanline, is_rendering, coarse_x, coarse_y]
ppu_write_end_handler(w, addr, val, ppu) ==
  CASE addr = PPUSCROLL -> write_end_ppuscroll(w, val, ppu.scroll_latch)
    [] addr = PPUADDR -> write_end_ppuaddr(w, ppu.scroll_latch, ppu.scanline,
                                           ppu.is_rendering, ppu.coarse_x, ppu.coarse_y)
    [] OTHER -> w

mmc3_irq_handler(w, irq_enabled, irq_latch) ==
  [w EXCEPT !.h.mmc3_irq = [scroll_pre_irq |-> w.h.ppuscroll.curr,
                            happened |-> TRUE,
                            on_scanline |-> IF irq_enabled THEN irq_latch ELSE 239]]

input_key(w, key, mod_shift) ==
  LET n == IF mod_shift THEN 1 ELSE 8
      o == w.pad.offset
  IN CASE key = "k" -> [w EXCEPT !.tiles = <<>>]
       [] key = "e" -> [w EXCEPT !.pad.offset.t = o.t + n]
       [] key = "3" -> [w EXCEPT !.pad.offset.t = o.t - n]
       [] key = "d" -> [w EXCEPT !.pad.offset.b = o.b + n]
       [] key = "c" -> [w EXCEPT !.pad.offset.b = o.b - n]
       [] key = "s" -> [w EXCEPT !.pad.offset.l = o.l + n]
       [] key = "a" -> [w EXCEPT !.pad.offset.l = o.l - n]
       [] key = "f" -> [w EXCEPT !.pad.offset.r = o.r + n]
       [] key = "g" -> [w EXCEPT !.pad.offset.r = o.r - n]
       [] OTHER -> w

\* input, the mouse part: pan.zoom is the sequence of the factors applied to
\* the initial 2.0, "*" for zoom *= 1.25 and "/" for zoom /= 1.25 (wheel is
\* event.wheel.y, one factor per unit)
RECURSIVE zoom_by(_, _)
zoom_by(zoom, wheel) ==
  IF wheel > 0 THEN zoom_by(Append(zoom, "*"), wheel - 1)
  ELSE IF wheel < 0 THEN zoom_by(Append(zoom, "/"), wheel + 1)
  ELSE zoom

input_mouse(w, event) ==
  CASE event.type = "SDL_MOUSEBUTTONDOWN" ->
         [w EXCEPT !.pan.last_mouse_pos = [x |-> event.x, y |-> event.y],
                   !.pan.active = TRUE]
    [] event.type = "SDL_MOUSEBUTTONUP" -> [w EXCEPT !.pan.active = FALSE]
    [] event.type = "SDL_MOUSEMOTION" ->
         IF w.pan.active
         THEN [w EXCEPT !.pan.dx = @ + (event.x - w.pan.last_mouse_pos.x),
                        !.pan.dy = @ + (event.y - w.pan.last_mouse_pos.y),
                        !.pan.last_mouse_pos = [x |-> event.x, y |-> event.y]]
         ELSE w
    [] event.type = "SDL_MOUSEWHEEL" -> [w EXCEPT !.pan.zoom = zoom_by(@, event.y)]
    [] OTHER -> w

\* variant: clearing the tiles also clears the padding
input_clear_resets_pad(w, event, in_menu) ==
  IF in_menu THEN w
  ELSE IF event.type = "SDL_KEYDOWN"
       THEN IF event.key = "k"
            THEN [w EXCEPT !.tiles = <<>>,
                           !.pad.guess = [l |-> 0, r |-> 0, t |-> 0, b |-> 0],
                           !.pad.total = [l |-> 0, r |-> 0, t |-> 0, b |-> 0]]
            ELSE input_key(w, event.key, event.mod_shift)
       ELSE input_mouse(w, event)

\* variant: the menu does not hold the event back
input_through_menu(w, event, in_menu) ==
  IF event.type = "SDL_KEYDOWN"
  THEN input_key(w, event.key, event.mod_shift)
  ELSE input_mouse(w, event)

\* WideNESModule::input; in_menu is gui.status.in_menu after the menu
\* submodule saw the event
input(w, event, in_menu) ==
  IF in_menu THEN w
  ELSE IF event.type = "SDL_KEYDOWN"
       THEN input_key(w, event.key, event.mod_shift)
       ELSE input_mouse(w, event)

\* variant: any latched PPUADDR write counts
zelda_any_write(w) == w.h.ppuaddr.did_change

\* lines 253-257: a PPUADDR write was latched and it happened mid-frame
zelda_midframe(w) ==
  /\ w.h.ppuaddr.did_change
  /\ w.h.ppuaddr.changed.on_scanline < 241
  /\ w.h.ppuaddr.changed.while_rendering

\* variant: the MMC3 branch runs before the Zelda branch
heuristics_irq_first(w, ppumask_m) ==
  LET pa == w.h.ppuaddr
      irq == w.h.mmc3_irq
      zelda == zelda_midframe(w)
      cut == pa.changed.on_scanline
      top == irq.on_scanline < 120
      g1 == [w.pad.guess EXCEPT !.l = IF ppumask_m THEN 0 ELSE 8]
      g2 == IF ~irq.happened THEN g1
            ELSE IF top THEN [g1 EXCEPT !.t = irq.on_scanline]
            ELSE [g1 EXCEPT !.b = 239 - irq.on_scanline]
      c1 == IF irq.happened /\ ~top THEN irq.scroll_pre_irq ELSE w.h.ppuscroll.curr
      g3 == IF ~zelda THEN g2
            ELSE IF cut < 120 THEN [g2 EXCEPT !.t = cut]
            ELSE [g2 EXCEPT !.b = 239 - irq.on_scanline]
      c2 == IF zelda THEN [c1 EXCEPT !.y = pa.new_scroll.y] ELSE c1
  IN [w EXCEPT !.curr_scroll = c2,
               !.pad.guess = g3,
               !.h.ppuaddr = [pa EXCEPT !.did_change = FALSE,
                                        !.active = IF zelda THEN TRUE ELSE @,
                                        !.cut_scanline = IF zelda THEN cut ELSE @],
               !.h.mmc3_irq.happened = FALSE]

\* variant: did_change and happened are not reset at the frame end
heuristics_keep_latches(w, ppumask_m) ==
  LET pa == w.h.ppuaddr
      irq == w.h.mmc3_irq
      zelda == zelda_midframe(w)
      cut == pa.changed.on_scanline
      top == irq.on_scanline < 120
      g1 == [w.pad.guess EXCEPT !.l = IF ppumask_m THEN 0 ELSE 8]
      g2 == IF ~zelda THEN g1
            ELSE IF cut < 120 THEN [g1 EXCEPT !.t = cut]
            ELSE [g1 EXCEPT !.b = 239 - irq.on_scanline]
      c1 == IF zelda
            THEN [x |-> w.h.ppuscroll.curr.x, y |-> pa.new_scroll.y]
            ELSE w.h.ppuscroll.curr
      g3 == IF ~irq.happened THEN g2
            ELSE IF top THEN [g2 EXCEPT !.t = irq.on_scanline]
            ELSE [g2 EXCEPT !.b = 239 - irq.on_scanline]
      c2 == IF irq.happened /\ ~top THEN irq.scroll_pre_irq ELSE c1
  IN [w EXCEPT !.curr_scroll = c2,
               !.pad.guess = g3,
               !.h.ppuaddr = [pa EXCEPT !.active = IF zelda THEN TRUE ELSE @,
                                        !.cut_scanline = IF zelda THEN cut ELSE @]]

\* variant: ppuaddr.active follows this frame's write, it is not sticky
heuristics_reset_active(w, ppumask_m) ==
  LET pa == w.h.ppuaddr
      irq == w.h.mmc3_irq
      zelda == zelda_midframe(w)
      cut == pa.changed.on_scanline
      g1 == [w.pad.guess EXCEPT !.l = IF ppumask_m THEN 0 ELSE 8]
      g2 == IF ~zelda THEN g1
            ELSE IF cut < 120 THEN [g1 EXCEPT !.t = cut]
            ELSE [g1 EXCEPT !.b = 239 - irq.on_scanline]
      c1 == IF zelda
            THEN [x |-> w.h.ppuscroll.curr.x, y |-> pa.new_scroll.y]
            ELSE w.h.ppuscroll.curr
      pa1 == [pa EXCEPT !.did_change = FALSE,
                        !.active = zelda,
                        !.cut_scanline = IF zelda THEN cut ELSE @]
      top == irq.on_scanline < 120
      g3 == IF ~irq.happened THEN g2
            ELSE IF top THEN [g2 EXCEPT !.t = irq.on_scanline]
            ELSE [g2 EXCEPT !.b = 239 - irq.on_scanline]
      c2 == IF irq.happened /\ ~top THEN irq.scroll_pre_irq ELSE c1
  IN [w EXCEPT !.curr_scroll = c2,
               !.pad.guess = g3,
               !.h.ppuaddr = pa1,
               !.h.mmc3_irq.happened = FALSE]

\* frame end, lines 246-297: the scroll and padding heuristics
heuristics(w, ppumask_m) ==
  LET pa == w.h.ppuaddr
      irq == w.h.mmc3_irq
      zelda == zelda_midframe(w)
      cut == pa.changed.on_scanline
      g1 == [w.pad.guess EXCEPT !.l = IF ppumask_m THEN 0 ELSE 8]
      g2 == IF ~zelda THEN g1
            ELSE IF cut < 120 THEN [g1 EXCEPT !.t = cut]
            ELSE [g1 EXCEPT !.b = 239 - irq.on_scanline]
      c1 == IF zelda
            THEN [x |-> w.h.ppuscroll.curr.x, y |-> pa.new_scroll.y]
            ELSE w.h.ppuscroll.curr
      pa1 == [pa EXCEPT !.did_change = FALSE,
                        !.active = IF zelda THEN TRUE ELSE @,
                        !.cut_scanline = IF zelda THEN cut ELSE @]
      top == irq.on_scanline < 120
      g3 == IF ~irq.happened THEN g2
            ELSE IF top THEN [g2 EXCEPT !.t = irq.on_scanline]
            ELSE [g2 EXCEPT !.b = 239 - irq.on_scanline]
      c2 == IF irq.happened /\ ~top THEN irq.scroll_pre_irq ELSE c1
  IN [w EXCEPT !.curr_scroll = c2,
               !.pad.guess = g3,
               !.h.ppuaddr = pa1,
               !.h.mmc3_irq.happened = FALSE]

\* variant: the delta is computed but the camera is not moved by it
update_scroll_keep_camera(w) ==
  LET g == w.pad.guess
      o == w.pad.offset
      total == [l |-> Max(0, g.l + o.l), r |-> Max(0, g.r + o.r),
                t |-> Max(0, g.t + o.t), b |-> Max(0, g.b + o.b)]
      dx0 == w.curr_scroll.x - w.last_scroll.x
      dy0 == w.curr_scroll.y - w.last_scroll.y
  IN [w EXCEPT !.pad.total = total,
               !.scroll = [x |-> w.scroll.x, y |-> w.scroll.y, dx |-> dx0, dy |-> dy0],
               !.last_scroll = w.curr_scroll]

\* variant: the horizontal delta wraps by 240, as the vertical one does
update_scroll_wrap_240(w) ==
  LET g == w.pad.guess
      o == w.pad.offset
      total == [l |-> Max(0, g.l + o.l), r |-> Max(0, g.r + o.r),
                t |-> Max(0, g.t + o.t), b |-> Max(0, g.b + o.b)]
      dx0 == w.curr_scroll.x - w.last_scroll.x
      dy0 == w.curr_scroll.y - w.last_scroll.y
      fuzz == 10
      thresh_w == (256 - total.l - total.r) - fuzz
      thresh_h == (240 - total.t - total.b) - fuzz
      dx1 == IF Abs(dx0) > thresh_w
             THEN (IF dx0 < 0 THEN dx0 + 240 ELSE dx0 - 240)
             ELSE dx0
      dy1 == IF Abs(dy0) > thresh_h
             THEN (IF dy0 < 0 THEN dy0 + 240 ELSE dy0 - 240)
             ELSE dy0
      dy2 == IF w.h.ppuaddr.active /\ Abs(dy1) > w.h.ppuaddr.cut_scanline
             THEN 0 ELSE dy1
  IN [w EXCEPT !.pad.total = total,
               !.scroll = [x |-> w.scroll.x + dx1, y |-> w.scroll.y + dy2,
                           dx |-> dx1, dy |-> dy2],
               !.last_scroll = w.curr_scroll]

\* variant: the final padding is guess + offset, not clamped at 0
update_scroll_unclamped(w) ==
  LET g == w.pad.guess
      o == w.pad.offset
      total == [l |-> g.l + o.l, r |-> g.r + o.r, t |-> g.t + o.t, b |-> g.b + o.b]
      dx0 == w.curr_scroll.x - w.last_scroll.x
      dy0 == w.curr_scroll.y - w.last_scroll.y
      fuzz == 10
      thresh_w == (256 - total.l - total.r) - fuzz
      thresh_h == (240 - total.t - total.b) - fuzz
      dx1 == IF Abs(dx0) > thresh_w
             THEN (IF dx0 < 0 THEN dx0 + 256 ELSE dx0 - 256)
             ELSE dx0
      dy1 == IF Abs(dy0) > thresh_h
             THEN (IF dy0 < 0 THEN dy0 + 240 ELSE dy0 - 240)
             ELSE dy0
      dy2 == IF w.h.ppuaddr.active /\ Abs(dy1) > w.h.ppuaddr.cut_scanline
             THEN 0 ELSE dy1
  IN [w EXCEPT !.pad.total = total,
               !.scroll = [x |-> w.scroll.x + dx1, y |-> w.scroll.y + dy2,
                           dx |-> dx1, dy |-> dy2],
               !.last_scroll = w.curr_scroll]

\* lines 307-348: final padding, scroll delta with wrap-around, commit
update_scroll(w) ==
  LET g == w.pad.guess
      o == w.pad.offset
      total == [l |-> Max(0, g.l + o.l), r |-> Max(0, g.r + o.r),
                t |-> Max(0, g.t + o.t), b |-> Max(0, g.b + o.b)]
      dx0 == w.curr_scroll.x - w.last_scroll.x
      dy0 == w.curr_scroll.y - w.last_scroll.y
      fuzz == 10
      thresh_w == (256 - total.l - total.r) - fuzz
      thresh_h == (240 - total.t - total.b) - fuzz
      dx1 == IF Abs(dx0) > thresh_w
             THEN (IF dx0 < 0 THEN dx0 + 256 ELSE dx0 - 256)
             ELSE dx0
      dy1 == IF Abs(dy0) > thresh_h
             THEN (IF dy0 < 0 THEN dy0 + 240 ELSE dy0 - 240)
             ELSE dy0
      dy2 == IF w.h.ppuaddr.active /\ Abs(dy1) > w.h.ppuaddr.cut_scanline
             THEN 0 ELSE dy1
  IN [w EXCEPT !.pad.total = total,
               !.scroll = [x |-> w.scroll.x + dx1, y |-> w.scroll.y + dy2,
                           dx |-> dx1, dy |-> dy2],
               !.last_scroll = w.curr_scroll]

\* variant: the destination coordinate is rounded down to an even pixel
dest_even(origin, t, size, s) == (((origin - t * size) + s) \div 2) * 2

\* dx = (scroll.x - tx * 256) + sx, and the same for dy
dest(origin, t, size, s) == (origin - t * size) + s

\* One axis of the projection loops, for (s = from; s < to; s++): the bag of
\* <<t, b>>, the tile and the block the source coordinate s lands in, with
\* one copy for every s.
axis_hits(from, to, origin, size) ==
  LET tile(s) == (origin + s) \div size
      key(s) == <<tile(s), dest(origin, tile(s), size, s) \div 16>>
  IN BagOfAll(key, SetToBag(from..(to - 1)))

\* sx = pad.total.l .. 255 - pad.total.r against scroll.x, tiles 256 wide
column_hits(w) == axis_hits(w.pad.total.l, 256 - w.pad.total.r, w.scroll.x, 256)

\* sy = pad.total.t .. 239 - pad.total.b against scroll.y, tiles 240 high
row_hits(w) == axis_hits(w.pad.total.t, 240 - w.pad.total.b, w.scroll.y, 240)

\* lines 363-403: tile->fill[bx][by] += 1 once per source pixel (sx, sy); a
\* missing or null tile is created first.  tx, dx, bx depend on sx only and
\* ty, dy, by on sy only, so block <<bx, by>> of tile <<tx, ty>> is hit once
\* for every pair of a copy of <<tx, bx>> in xs and a copy of <<ty, by>> in ys.
\* The same pixels of fb_new take the picture of this frame, framebuffer:
\* in a block the source columns are consecutive, so they form a rectangle
\* that starts at the first destination column (row) the loop reaches.
project(w, xs, ys, framebuffer) ==
  LET kxs == BagToSet(xs)
      kys == BagToSet(ys)
      touched == {<<kx[1], ky[1]>> : kx \in kxs, ky \in kys}
      hit(t) == {<<kx[2], ky[2]>> : kx \in {k \in kxs : k[1] = t[1]},
                                    ky \in {k \in kys : k[1] = t[2]}}
      hits(t, b) == CopiesIn(<<t[1], b[1]>>, xs) * CopiesIn(<<t[2], b[2]>>, ys)
      rect(t, b) ==
        [colour |-> framebuffer,
         x |-> Max(0, dest(w.scroll.x, t[1], 256, w.pad.total.l) - 16 * b[1]),
         nx |-> CopiesIn(<<t[1], b[1]>>, xs),
         y |-> Max(0, dest(w.scroll.y, t[2], 240, w.pad.total.t) - 16 * b[2]),
         ny |-> CopiesIn(<<t[2], b[2]>>, ys)]
      old(t) == IF TileAt(w.tiles, t) = Null THEN NewTile ELSE w.tiles[t]
      new == [t \in touched |->
                [old(t) EXCEPT !.fill = Table([b \in hit(t) \cup DOMAIN old(t).fill |->
                                                 FillAt(old(t), b) + hits(t, b)]),
                               !.fb_new = Table([b \in hit(t) |->
                                                   Paint(RegionAt(old(t).fb_new, b),
                                                         rect(t, b))])
                                          @@ old(t).fb_new]]
  IN [w EXCEPT !.tiles = new @@ w.tiles]

\* the four tiles the block commit visits
CommitTiles(w) ==
  LET tx == w.scroll.x \div 256
      ty == w.scroll.y \div 240
  IN {<<tx + dx, ty + dy>> : dx \in {0, 1}, dy \in {0, 1}}

\* the blocks of fb_new copied to fb
copy_blocks(tile, blocks) ==
  Table([b \in blocks |-> tile.fb_new[b]]) @@ tile.fb

\* variant: fill is cleared only for a block that was committed
commit_tile_keep_partial(tile) ==
  IF tile = Null THEN tile
  ELSE [tile EXCEPT !.done = @ \cup {b \in DOMAIN tile.fill : tile.fill[b] = 256},
                    !.fb = copy_blocks(tile, {b \in DOMAIN tile.fill : tile.fill[b] = 256}),
                    !.fill = Table([b \in {c \in DOMAIN tile.fill : tile.fill[c] # 256} |->
                                      tile.fill[b]])]

\* variant: every block the projection wrote to is copied to fb
commit_tile_copy_touched(tile) ==
  IF tile = Null THEN tile
  ELSE [tile EXCEPT !.done = @ \cup {b \in DOMAIN tile.fill : tile.fill[b] = 256},
                    !.fb = copy_blocks(tile, DOMAIN tile.fill),
                    !.fill = <<>>]

\* lines 412-435: a block with fill == 256 is marked done and its region of
\* fb_new is copied to fb; fill is cleared for every block
commit_tile(tile) ==
  IF tile = Null THEN tile
  ELSE [tile EXCEPT !.done = @ \cup {b \in DOMAIN tile.fill : tile.fill[b] = 256},
                    !.fb = copy_blocks(tile, {b \in DOMAIN tile.fill : tile.fill[b] = 256}),
                    !.fill = <<>>]

\* lines 408-437: tiles[tx + dx][ty + dy] inserts a null entry when absent
commit_blocks(w) ==
  [w EXCEPT !.tiles = [t \in CommitTiles(w) |-> commit_tile(TileAt(w.tiles, t))] @@ w.tiles]

(* ------------------------------ the system ----------------------------- *)

VARIABLES
  reg,        \* CPU::reg: [pc, s, a, x, y, p]
  cycles,     \* CPU::cycles
  state,      \* CPU::state
  mem,        \* the memory bus the CPU is bound to
  interrupt,  \* the interrupt lines the CPU is bound to (set of pending kinds)
  lastOp,     \* the operation that produced this state
  ret,        \* value returned by the last step
  fetched,    \* opcode byte the last step fetched, -1 if it fetched none
  serviced,   \* kinds the last step handed to interrupt.service()
  pre,        \* reg, cycles, state, mem, interrupt as the last CPU operation found them
  hist,       \* kinds serviced at step entry since the last request
  ncalls,     \* number of CPU calls (step, power_cycle, reset) so far
  nrequests,  \* number of interrupt requests so far
  tiles,      \* WideNESModule::tiles: <<tx, ty>> -> Null or a tile [ptr, fill, done, fb, fb_new]
  pad,        \* WideNESModule::pad: [guess, offset, total], each [l, r, t, b]
  last_scroll, \* WideNESModule::last_scroll: [x, y]
  curr_scroll, \* WideNESModule::curr_scroll: [x, y]
  scroll,     \* WideNESModule::scroll: [x, y, dx, dy]
  h,          \* WideNESModule::h: [ppuscroll, mmc3_irq, ppuaddr]
  pan,        \* WideNESModule::pan: [active, last_mouse_pos, dx, dy, zoom]
  log,        \* the handler calls since the last frame end, with their inputs
  wideOp,     \* the WideNES handler that produced this state
  frame,      \* what the last frame end saw between projection and block commit
  nframes,    \* number of frame ends so far
  nevents     \* number of other WideNES handler calls so far

cpuVars ==
  <<reg, cycles, state, mem, interrupt, lastOp, ret, fetched, serviced, pre, hist,
    ncalls, nrequests>>

wideVars ==
  <<tiles, pad, last_scroll, curr_scroll, scroll, h, pan, log, wideOp, frame, nframes,
    nevents>>

vars == <<cpuVars, wideVars>>

\* the member initialisers of widenes.h; no tile exists
WideInit ==
  /\ tiles = <<>>
  /\ pad = [guess |-> [l |-> 0, r |-> 0, t |-> 0, b |-> 0],
            offset |-> [l |-> 0, r |-> 0, t |-> 0, b |-> 0],
            total |-> [l |-> 0, r |-> 0, t |-> 0, b |-> 0]]
  /\ last_scroll = [x |-> 0, y |-> 0]
  /\ curr_scroll = [x |-> 0, y |-> 0]
  /\ scroll = [x |-> 0, y |-> 0, dx |-> 0, dy |-> 0]
  /\ h = [ppuscroll |-> [curr |-> [x |-> 0, y |-> 0]],
          mmc3_irq |-> [happened |-> FALSE, on_scanline |-> 239,
                        scroll_pre_irq |-> [x |-> 0, y |-> 0]],
          ppuaddr |-> [did_change |-> FALSE,
                       changed |-> [on_scanline |-> 0, while_rendering |-> FALSE],
                       active |-> FALSE, cut_scanline |-> 0,
                       new_scroll |-> [x |-> 0, y |-> 0]]]
  /\ pan = [active |-> FALSE, last_mouse_pos |-> [x |-> 0, y |-> 0],
            dx |-> 0, dy |-> 0, zoom |-> <<>>]
  /\ log = <<>>
  /\ wideOp = "init"
  /\ frame = [fill |-> <<>>, x |-> <<>>, y |-> <<>>, log |-> <<>>,
              zelda |-> FALSE, mmc3 |-> FALSE]
  /\ nframes = 0
  /\ nevents = 0

\* memory image: bytes laid out from a base address
Bytes(base, bs) == [a \in base..(base + Len(bs) - 1) |-> bs[a - base + 1]]

\* vectors: NMI at $FFFA, RESET at $FFFC, IRQ/BRK at $FFFE (little-endian)
Vectors(nmi, rst, irq) ==
  Bytes(65530, <<nmi % 256, nmi \div 256, rst % 256, rst \div 256, irq % 256, irq \div 256>>)

\* $8000: CLI; LDA #$42; PHA; $02 (unused opcode); LDX #$01; BRK
\* $9000: PHA; RTI (NMI handler)      $A000: INX; RTI (IRQ/BRK handler)
\* $C000: JSR $C010; STA $0200; $FF (unused opcode); NOP
\* $C010: LDA #$80; RTS
Image ==
  Bytes(32768, <<88, 169, 66, 72, 2, 162, 1, 0>>) @@ Bytes(36864, <<72, 64>>)
    @@ Bytes(40960, <<232, 64>>)
    @@ Bytes(49152, <<32, 16, 192, 141, 0, 2, 255, 234>>) @@ Bytes(49168, <<169, 128, 96>>)
    @@ Vectors(36864, 32768, 40960)

Images == {Image}

\* the constructor leaves reg.pc unset: any of these values
InitPCs == {0, 32768, 49152}

Machine ==
  [reg |-> reg, cycles |-> cycles, state |-> state, mem |-> mem,
   interrupt |-> interrupt, serviced |-> serviced, fetched |-> fetched, ret |-> ret]

Snapshot ==
  [reg |-> reg, cycles |-> cycles, state |-> state, mem |-> mem, interrupt |-> interrupt]

\* CPU::CPU: binds the bus and the lines, then power-cycles
Init ==
  /\ \E pc \in InitPCs :
       reg = power_cycle([reg |-> [pc |-> pc, s |-> 0, a |-> 0, x |-> 0, y |-> 0, p |-> 0],
                          cycles |-> 0, state |-> Running]).reg
  /\ cycles = 0
  /\ state = Running
  /\ mem \in Images
  /\ interrupt = {}
  /\ lastOp = "init"
  /\ ret = 0
  /\ fetched = -1
  /\ serviced = <<>>
  /\ pre = [reg |-> reg, cycles |-> cycles, state |-> state, mem |-> mem, interrupt |-> interrupt]
  /\ hist = <<>>
  /\ ncalls = 0
  /\ nrequests = 0
  /\ WideInit

Install(m) ==
  /\ reg' = m.reg
  /\ cycles' = m.cycles
  /\ state' = m.state
  /\ mem' = m.mem
  /\ interrupt' = m.interrupt
  /\ ret' = m.ret
  /\ fetched' = m.fetched
  /\ serviced' = m.serviced
  /\ pre' = Snapshot
  /\ UNCHANGED wideVars

Step ==
  /\ ncalls < MaxCalls
  /\ Install(step(Machine))
  /\ lastOp' = "step"
  /\ hist' = IF Get(interrupt) # "NONE" THEN Append(hist, Get(interrupt)) ELSE hist
  /\ ncalls' = ncalls + 1
  /\ UNCHANGED nrequests

PowerCycle ==
  /\ ncalls < MaxCalls
  /\ Install(power_cycle(Machine))
  /\ lastOp' = "power_cycle"
  /\ ncalls' = ncalls + 1
  /\ UNCHANGED <<hist, nrequests>>

Reset ==
  /\ ncalls < MaxCalls
  /\ Install(reset(Machine))
  /\ lastOp' = "reset"
  /\ ncalls' = ncalls + 1
  /\ UNCHANGED <<hist, nrequests>>

\* a producer (PPU, mapper, reset source) marks a line pending
RequestInterrupt ==
  \E kind \in Kinds :
    /\ nrequests < MaxRequests
    /\ interrupt' = Request(interrupt, kind)
    /\ lastOp' = "request"
    /\ hist' = <<>>
    /\ nrequests' = nrequests + 1
    /\ UNCHANGED <<reg, cycles, state, mem, ret, fetched, serviced, pre, ncalls>>
    /\ UNCHANGED wideVars

Next == Step \/ PowerCycle \/ Reset \/ RequestInterrupt

Spec == Init /\ [][Next]_vars

TypeOK ==
  /\ reg.pc \in 0..65535
  /\ reg.s \in 0..255 /\ reg.a \in 0..255 /\ reg.x \in 0..255 /\ reg.y \in 0..255
  /\ reg.p \in 0..255
  /\ cycles \in Nat
  /\ state \in {Running, Halted}
  /\ \A a \in DOMAIN mem : a \in 0..65535 /\ mem[a] \in 0..255
  /\ interrupt \subseteq Kinds

(* ------------------------------ properties ----------------------------- *)

\* the interrupt kind the last step found pending at entry
EntryKind == Get(pre.interrupt)

\* the vector address of an interrupt kind
VectorOf(kind) ==
  CASE kind = "NMI" -> 65530
    [] kind = "RESET" -> 65532
    [] kind = "IRQ" -> 65534

\* rank of a kind in the priority order RESET > NMI > IRQ
Priority(kind) ==
  CASE kind = "RESET" -> 3
    [] kind = "NMI" -> 2
    [] kind = "IRQ" -> 1

InvalidFetched(op) == op >= 0 /\ Opcodes[op].instr = "INVALID"

\* C1: every step either services the one interrupt kind that get() returned
\* at entry, fetching no opcode and changing PC only by the vector load, or
\* (when get() was NONE) fetches the opcode at PC, executes that instruction
\* and leaves the interrupt lines as they were; at most one kind is serviced.
C1_StepServicesOrExecutes ==
  lastOp = "step" =>
    /\ Len(serviced) <= 1
    /\ EntryKind # "NONE" =>
         /\ serviced = <<EntryKind>>
         /\ fetched = -1
         /\ reg.pc \in {pre.reg.pc, read16(pre.mem, VectorOf(EntryKind))}
    /\ EntryKind = "NONE" =>
         /\ fetched = Read(pre.mem, pre.reg.pc)
         /\ interrupt = pre.interrupt
         /\ serviced # <<>> => Opcodes[fetched].instr = "BRK"

C1_Witness ==
  /\ lastOp = "step"
  /\ EntryKind = "NMI"
  /\ Cardinality(pre.interrupt) = 2
  /\ fetched = -1
  /\ ncalls >= 2

\* C2: a step taken in state Halted changes none of PC, A, X, Y, S, P, the
\* memory, the pending interrupt lines and the cycle counter, and returns 0.
C2_HaltedStepDoesNothing ==
  (lastOp = "step" /\ pre.state = Halted) =>
    /\ reg = pre.reg
    /\ mem = pre.mem
    /\ interrupt = pre.interrupt
    /\ cycles = pre.cycles
    /\ ret = 0

\* C3: a step that services a plain IRQ loads PC from $FFFE/$FFFF exactly when
\* P.I was 0 before the servicing began (and leaves PC alone otherwise); a BRK
\* loads PC from $FFFE/$FFFF whatever P.I was.
C3_IrqJumpsIffUnmasked ==
  (lastOp = "step" /\ serviced = <<"IRQ">>) =>
    IF fetched = -1
    THEN IF GetFlag(pre.reg.p, Flag.i) = 0
         THEN reg.pc = read16(pre.mem, 65534)
         ELSE reg.pc = pre.reg.pc
    ELSE reg.pc = read16(pre.mem, 65534)

\* C4: the state goes from Running to Halted only in a step whose fetched
\* opcode has no implemented instruction, every such step leaves it Halted,
\* no step takes it from Halted to Running, and power_cycle and reset (and
\* nothing else) set it to Running.
C4_HaltTransitions ==
  [][ /\ (state = Running /\ state' = Halted) =>
           (lastOp' = "step" /\ InvalidFetched(fetched'))
      /\ (lastOp' = "step" /\ ncalls' = ncalls + 1 /\ InvalidFetched(fetched')) =>
           (state' = Halted /\ ret' = cycles' - cycles)
      /\ (state = Halted /\ state' = Running) =>
           (lastOp' \in {"power_cycle", "reset"} /\ ncalls' = ncalls + 1)
      /\ (lastOp' \in {"power_cycle", "reset"} /\ ncalls' = ncalls + 1) => state' = Running
    ]_vars

C4_Witness ==
  /\ lastOp = "step"
  /\ pre.state = Running
  /\ state = Halted
  /\ fetched = 2

\* C5: a step that services kind k leaves k not pending and every other
\* pending kind pending; without a new request the pending kinds are
\* serviced one per step in the order RESET, NMI, IRQ, and only when none is
\* pending does a step execute an instruction.
C5_ServiceClearsOneInPriorityOrder ==
  /\ (lastOp = "step" /\ EntryKind # "NONE") =>
       /\ interrupt = pre.interrupt \ {EntryKind}
       /\ fetched = -1
  /\ lastOp = "step" => (fetched >= 0 <=> pre.interrupt = {})
  /\ \A i \in 1..Len(hist) :
       /\ \A j \in 1..Len(hist) : i < j => Priority(hist[i]) > Priority(hist[j])
       /\ \A k \in interrupt : Priority(hist[i]) > Priority(k)

C5_Witness ==
  /\ hist = <<"RESET", "NMI", "IRQ">>
  /\ lastOp = "step"
  /\ fetched >= 0
  /\ interrupt = {}

\* C6: servicing an NMI or IRQ with stack pointer S writes PC's high byte to
\* $0100|S, PC's low byte to $0100|(S-1 mod 256), the status byte with I set
\* to $0100|(S-2 mod 256) and nothing else, leaves S lowered by 3 modulo 256,
\* costs exactly 7 cycles, and for NMI loads PC from the word at $FFFA.
C6_NmiIrqPushesAndVector ==
  (lastOp = "step" /\ fetched = -1 /\ EntryKind \in {"NMI", "IRQ"}) =>
    LET S == pre.reg.s
        a1 == 256 + S
        a2 == 256 + ((S + 255) % 256)
        a3 == 256 + ((S + 254) % 256)
    IN /\ Read(mem, a1) = pre.reg.pc \div 256
       /\ Read(mem, a2) = pre.reg.pc % 256
       /\ Read(mem, a3) = SetFlag(pre.reg.p, Flag.i, 1)
       /\ \A a \in (DOMAIN mem) \cup (DOMAIN pre.mem) :
            a \notin {a1, a2, a3} => Read(mem, a) = Read(pre.mem, a)
       /\ reg.s = (S + 253) % 256
       /\ ret = 7
       /\ cycles = pre.cycles + 7
       /\ EntryKind = "NMI" => reg.pc = read16(pre.mem, 65530)

C6_Witness ==
  /\ lastOp = "step"
  /\ fetched = -1
  /\ EntryKind = "NMI"
  /\ GetFlag(pre.reg.p, Flag.i) = 0
  /\ reg.pc = 36864
  /\ pre.reg.pc # 36864

\* C7: a step taken while RESET is pending sets PC to the little-endian word
\* at $FFFC/$FFFD, returns 7, sets P.I, writes no memory, leaves S, A, X and Y
\* unchanged and leaves RESET not pending.
C7_ResetStep ==
  (lastOp = "step" /\ EntryKind = "RESET") =>
    /\ reg.pc = Read(pre.mem, 65532) + 256 * Read(pre.mem, 65533)
    /\ ret = 7
    /\ GetFlag(reg.p, Flag.i) = 1
    /\ mem = pre.mem
    /\ reg.s = pre.reg.s /\ reg.a = pre.reg.a
    /\ reg.x = pre.reg.x /\ reg.y = pre.reg.y
    /\ "RESET" \notin interrupt

C7_Witness ==
  /\ lastOp = "step"
  /\ EntryKind = "RESET"
  /\ Read(pre.mem, 65532) = 0 /\ Read(pre.mem, 65533) = 128
  /\ reg.pc = 32768
  /\ pre.reg.pc # 32768
  /\ GetFlag(pre.reg.p, Flag.i) = 0

\* C8: after power_cycle, whatever the state before, A = X = Y = 0, S = $FD,
\* P.raw = $34, cycles = 0 and state = Running.
C8_PowerCycleState ==
  lastOp = "power_cycle" =>
    /\ reg.a = 0 /\ reg.x = 0 /\ reg.y = 0
    /\ reg.s = 253
    /\ reg.p = 52
    /\ cycles = 0
    /\ state = Running

C8_Witness ==
  /\ lastOp = "power_cycle"
  /\ pre.state = Halted
  /\ pre.reg.a # 0
  /\ pre.reg.s # 253
  /\ pre.reg.p # 52
  /\ pre.cycles > 0

\* CPU states that power_cycle is compared on: the machine with other
\* register files
OtherRegs ==
  { [pc |-> 0, s |-> 0, a |-> 0, x |-> 0, y |-> 0, p |-> 0],
    [pc |-> 32768, s |-> 255, a |-> 66, x |-> 1, y |-> 128, p |-> 255],
    [pc |-> 65535, s |-> 253, a |-> 0, x |-> 0, y |-> 0, p |-> 52] }

OtherStates ==
  { [Machine EXCEPT !.reg = r, !.state = st, !.cycles = 9] :
      r \in OtherRegs, st \in {Running, Halted} }

\* C9: power_cycle applied to any two CPU states gives results whose PC, S,
\* A, X, Y and P are all equal.
C9_PowerCycleSameRegisterFile ==
  lastOp = "power_cycle" =>
    \A o \in OtherStates : power_cycle(o).reg = reg

\* C9 (amended): power_cycle applied to any two CPU states gives results
\* whose S, A, X, Y and P are equal; PC is left as each state had it.
C9_PowerCycleSameRegistersButPC ==
  lastOp = "power_cycle" =>
    /\ reg.pc = pre.reg.pc
    /\ \A o \in OtherStates :
         LET r == power_cycle(o).reg
         IN /\ r.s = reg.s /\ r.a = reg.a /\ r.x = reg.x /\ r.y = reg.y /\ r.p = reg.p
            /\ r.pc = o.reg.pc

C9_Witness ==
  /\ lastOp = "power_cycle"
  /\ pre.reg.a # 0
  /\ pre.reg.s # 253
  /\ pre.reg.pc \notin {0, 32768, 65535}

\* C10: reset lowers S by 3 modulo 256, sets P.I and sets the state to
\* Running, and leaves A, X, Y, PC, the other flags, the cycle counter and
\* the memory unchanged.
C10_ResetEffect ==
  lastOp = "reset" =>
    /\ reg.s = (pre.reg.s + 253) % 256
    /\ GetFlag(reg.p, Flag.i) = 1
    /\ \A f \in {0, 1, 3, 4, 5, 6, 7} : GetFlag(reg.p, f) = GetFlag(pre.reg.p, f)
    /\ state = Running
    /\ reg.a = pre.reg.a /\ reg.x = pre.reg.x /\ reg.y = pre.reg.y
    /\ reg.pc = pre.reg.pc
    /\ cycles = pre.cycles
    /\ mem = pre.mem

C10_Witness ==
  /\ lastOp = "reset"
  /\ pre.state = Halted
  /\ GetFlag(pre.reg.p, Flag.i) = 0
  /\ pre.reg.a # 0
  /\ pre.cycles > 0

(* ------------------- runs from chosen registers and memory ------------- *)

\* a CPU whose registers and memory hold the given values, nothing pending
UnitInit(r, image) ==
  /\ reg = r
  /\ cycles = 0
  /\ state = Running
  /\ mem = image
  /\ interrupt = {}
  /\ lastOp = "init"
  /\ ret = 0
  /\ fetched = -1
  /\ serviced = <<>>
  /\ pre = [reg |-> r, cycles |-> 0, state |-> Running, mem |-> image, interrupt |-> {}]
  /\ hist = <<>>
  /\ ncalls = 0
  /\ nrequests = 0
  /\ WideInit

Regs(pc, s, a, x, y, p) == [pc |-> pc, s |-> s, a |-> a, x |-> x, y |-> y, p |-> p]

StepUnit ==
  /\ ncalls < MaxUnitCalls
  /\ Step

NextUnit == StepUnit

\* stack pointers around the wrap and the power-up value
StackSamples == {0, 1, 2, 253, 255}

\* PHA; PLA from every stack pointer with every byte in A,
\* PHP; PLP and PHP; RTI from every status byte
InitStack ==
  \/ \E s \in 0..255, v \in 0..255 :
       UnitInit(Regs(32768, s, v, 0, 0, 52), Bytes(32768, <<72, 104>>))
  \/ \E p \in 0..255, s \in StackSamples, pull \in {40, 64} :
       UnitInit(Regs(32768, s, 0, 0, 0, p), Bytes(32768, <<8, pull>>))

SpecStack == InitStack /\ [][NextUnit]_vars

\* C11: for every stack pointer S and byte v, s_push(v) followed by s_pull
\* returns v and restores S; the push writes exactly one location, $0100|S,
\* inside $0100..$01FF, and S wraps modulo 256 (push at $00 gives $FF, pull
\* at $FF reads $0100); PHA followed by PLA shows the same through step.
C11_PushPullRoundTrip ==
  /\ LET v == reg.a
         m1 == s_push(Machine, v)
         at == 256 + reg.s
     IN /\ s_pull_val(m1) = v
        /\ s_pull(m1).reg.s = reg.s
        /\ m1.reg.s = (reg.s + 255) % 256
        /\ at \in 256..511
        /\ Read(m1.mem, at) = v
        /\ \A a \in (DOMAIN m1.mem) \cup (DOMAIN mem) :
             a # at => Read(m1.mem, a) = Read(mem, a)
        /\ (reg.s = 0 => m1.reg.s = 255)
        /\ (reg.s = 255 => s_pull_val(Machine) = Read(mem, 256))
  /\ (lastOp = "step" /\ fetched = 72) =>
       /\ Read(mem, 256 + pre.reg.s) = pre.reg.a
       /\ reg.s = (pre.reg.s + 255) % 256
       /\ \A a \in (DOMAIN mem) \cup (DOMAIN pre.mem) :
            a # 256 + pre.reg.s => Read(mem, a) = Read(pre.mem, a)
  /\ (lastOp = "step" /\ fetched = 104 /\ ncalls = 2 /\ Read(mem, 32768) = 72) =>
       /\ reg.a = pre.reg.a
       /\ reg.s = (pre.reg.s + 1) % 256
       /\ mem = pre.mem

C11_Witness ==
  /\ lastOp = "step"
  /\ fetched = 104
  /\ Read(mem, 32768) = 72
  /\ pre.reg.s = 255
  /\ reg.s = 0
  /\ reg.a = 128
  /\ Read(mem, 256) = 128


\* C12: for every status byte p, PHP followed by PLP, and likewise PHP
\* followed by RTI, leaves P.raw = p | 0x20.
C12_PhpPlpKeepsStatus ==
  /\ (lastOp = "step" /\ fetched = 8) =>
       /\ reg.p = pre.reg.p
       /\ Read(mem, 256 + pre.reg.s) = pre.reg.p
  /\ (/\ lastOp = "step"
      /\ fetched \in {40, 64}
      /\ ncalls = 2
      /\ Read(mem, 32768) = 8) =>
       LET p == pre.reg.p
       IN /\ Read(mem, 256 + ((pre.reg.s + 1) % 256)) = p
          /\ reg.p = BitOr(p, 32, 8)
          /\ \A n \in 0..7 : nth_bit(reg.p, n) = (IF n = 5 THEN 1 ELSE nth_bit(p, n))

C12_Witness ==
  /\ lastOp = "step"
  /\ fetched = 64
  /\ ncalls = 2
  /\ Read(mem, 32768) = 8
  /\ pre.reg.p = 195
  /\ Read(mem, 256 + ((pre.reg.s + 1) % 256)) = 195
  /\ reg.p = 227


(* ------------------- runs of a program that moves P -------------------- *)

\* $8000: LDA #$00; PHA; PLP; PHP; BRK.  NMI handler $9000: PHA; RTI.
\* IRQ/BRK handler $A000: PHP; PLP; RTI.
ImageFlags ==
  Bytes(32768, <<169, 0, 72, 40, 8, 0>>)
    @@ Bytes(36864, <<72, 64>>)
    @@ Bytes(40960, <<8, 40, 64>>)
    @@ Vectors(36864, 32768, 40960)

InitFlags ==
  UnitInit(power_cycle([reg |-> Regs(32768, 0, 0, 0, 0, 0),
                        cycles |-> 0, state |-> Running]).reg,
           ImageFlags)

SpecFlags == InitFlags /\ [][Next]_vars

\* the status byte a step pushed: PHP pushes at S, an interrupt entry or BRK
\* pushes two PC bytes first
PushedStatus ==
  IF fetched = 8
  THEN Read(mem, 256 + pre.reg.s)
  ELSE Read(mem, 256 + ((pre.reg.s + 254) % 256))

PushesStatus ==
  /\ lastOp = "step"
  /\ \/ fetched = 8
     \/ serviced # <<>> /\ serviced[1] # "RESET"

\* C13: in every state reachable from power_cycle by steps, resets and
\* interrupt requests bit 5 (U) of P is 1, so every status byte pushed by
\* PHP, BRK, NMI or IRQ has bit 5 set.
C13_UnusedBitAlwaysSet ==
  /\ nth_bit(reg.p, 5) = 1
  /\ PushesStatus => nth_bit(PushedStatus, 5) = 1

C13_Witness ==
  /\ PushesStatus
  /\ fetched = 8
  /\ pre.reg.p = 32
  /\ PushedStatus = 32


\* C14: pushed status bytes follow the 6502 B-flag convention: PHP and BRK
\* push bit 4 set, a hardware NMI or IRQ pushes bit 4 clear, whatever the
\* B bit of P is.
C14_PushedBreakBit ==
  PushesStatus =>
    IF fetched = -1
    THEN nth_bit(PushedStatus, 4) = 0
    ELSE nth_bit(PushedStatus, 4) = 1


(* ----------------------------- ADC and SBC ----------------------------- *)

\* one immediate-operand instruction with every A, operand and carry
InitArith(op) ==
  \E a \in 0..255, val \in 0..255, c \in 0..1 :
    UnitInit(Regs(32768, 253, a, 0, 0, 36 + c), Bytes(32768, <<op, val>>))

SpecAdc == InitArith(105) /\ [][NextUnit]_vars

SpecSbc == InitArith(233) /\ [][NextUnit]_vars

\* the operand byte of the two-byte instruction the last step executed
Operand == Read(pre.mem, u16(pre.reg.pc + 1))

CarryIn == GetFlag(pre.reg.p, Flag.c)

SignedOverflow(r) == r < -128 \/ r > 127

\* C15: ADC, for all A, operand and carry-in: A = (A + operand + C) mod 256,
\* C iff the sum exceeds $FF, Z iff the result is 0, N = bit 7 of the result,
\* V iff both operands have the same sign and the result's sign differs.
C15_AdcResultAndFlags ==
  (lastOp = "step" /\ fetched = 105) =>
    LET A == pre.reg.a
        sum == A + Operand + CarryIn
    IN /\ reg.a = sum % 256
       /\ GetFlag(reg.p, Flag.c) = BoolBit(sum > 255)
       /\ GetFlag(reg.p, Flag.z) = BoolBit(reg.a = 0)
       /\ GetFlag(reg.p, Flag.n) = nth_bit(reg.a, 7)
       /\ GetFlag(reg.p, Flag.v) =
            BoolBit(/\ nth_bit(A, 7) = nth_bit(Operand, 7)
                    /\ nth_bit(reg.a, 7) # nth_bit(A, 7))
       /\ GetFlag(reg.p, Flag.v) = BoolBit(SignedOverflow(i8(A) + i8(Operand) + CarryIn))
       /\ \A f \in {Flag.i, Flag.d, Flag.b, Flag.u} :
            GetFlag(reg.p, f) = GetFlag(pre.reg.p, f)

\* $50 + $50: A = $A0, C = 0, V = 1, N = 1, Z = 0
C15_Witness ==
  /\ lastOp = "step"
  /\ fetched = 105
  /\ pre.reg.a = 80
  /\ Operand = 80
  /\ CarryIn = 0
  /\ reg.a = 160
  /\ GetFlag(reg.p, Flag.c) = 0
  /\ GetFlag(reg.p, Flag.v) = 1
  /\ GetFlag(reg.p, Flag.n) = 1
  /\ GetFlag(reg.p, Flag.z) = 0


BorrowIn == 1 - CarryIn

\* SBC as stated with a 9-bit sum: A plus the byte complement of the operand
\* plus the carry-in, C = !(sum > $FF), C = 1 exactly when no borrow occurred
C16_SbcNineBitSum ==
  (lastOp = "step" /\ fetched = 233) =>
    LET A == pre.reg.a
        sum == A + (255 - Operand) + CarryIn
    IN /\ reg.a = sum % 256
       /\ reg.a = (A - Operand - BorrowIn) % 256
       /\ GetFlag(reg.p, Flag.c) = BoolBit(~(sum > 255))
       /\ GetFlag(reg.p, Flag.c) = BoolBit(A >= Operand + BorrowIn)
       /\ GetFlag(reg.p, Flag.v) = BoolBit(SignedOverflow(i8(A) - i8(Operand) - BorrowIn))

\* C16: SBC computes the 16-bit wrap of A + (-operand - 1) + carry-in, sets A
\* to its low 8 bits, (A - operand - (1 - C)) mod 256, and C to
\* !(sum > $FF); the resulting C is 1 exactly when no borrow occurred
\* (A >= operand + (1 - C_in)) and V is 1 exactly on signed overflow.
C16_SbcWrappedSum ==
  (lastOp = "step" /\ fetched = 233) =>
    LET A == pre.reg.a
        sum == (A + (0 - Operand - 1) + CarryIn) % 65536
    IN /\ reg.a = sum % 256
       /\ reg.a = (A - Operand - BorrowIn) % 256
       /\ GetFlag(reg.p, Flag.c) = BoolBit(~(sum > 255))
       /\ GetFlag(reg.p, Flag.c) = BoolBit(A >= Operand + BorrowIn)
       /\ GetFlag(reg.p, Flag.v) = BoolBit(SignedOverflow(i8(A) - i8(Operand) - BorrowIn))

\* $05 - $03 with carry set: no borrow, A = $02, C = 1; the byte-complement
\* sum $05 + $FC + 1 is $102
C16_Witness ==
  /\ lastOp = "step"
  /\ fetched = 233
  /\ pre.reg.a = 5
  /\ Operand = 3
  /\ CarryIn = 1
  /\ reg.a = 2
  /\ GetFlag(reg.p, Flag.c) = 1
  /\ GetFlag(reg.p, Flag.v) = 0


(* ----------------------------- indirect JMP ---------------------------- *)

\* pointers at the start, in the middle and at the end of a page
PointerLows == {0, 1, 254, 255}

PointerHighs == {0, 16, 255}

TargetBytes == {18, 52, 86}

\* JMP (ptr) at $8000; the bytes at ptr, at ptr + 1 and at the start of the
\* pointer's page are chosen independently
InitJmp ==
  \E lo \in PointerLows, hi \in PointerHighs, a \in TargetBytes,
     b \in TargetBytes, c \in TargetBytes :
    LET ptr == lo + 256 * hi
        image == Write(Write(Write(Bytes(32768, <<108, lo, hi>>),
                                   256 * hi, c), u16(ptr + 1), b), ptr, a)
    IN UnitInit(Regs(32768, 253, 0, 0, 0, 36), image)

SpecJmp == InitJmp /\ [][NextUnit]_vars

Pointer == read16(pre.mem, u16(pre.reg.pc + 1))

\* C17: indirect JMP with the pointer at $xxFF reads the low byte from $xxFF
\* and the high byte from $xx00; with any other pointer it reads the pointer
\* and the pointer + 1.
C17_IndirectJmpPageWrap ==
  (lastOp = "step" /\ fetched = 108) =>
    LET lo == Read(pre.mem, Pointer)
        hi == IF Pointer % 256 = 255
              THEN Read(pre.mem, Pointer - 255)
              ELSE Read(pre.mem, Pointer + 1)
    IN reg.pc = lo + 256 * hi

\* 6C FF 10 with $34 at $10FF, $12 at $1000 and another byte at $1100
C17_Witness ==
  /\ lastOp = "step"
  /\ fetched = 108
  /\ Pointer = 4351
  /\ Read(pre.mem, 4351) = 52
  /\ Read(pre.mem, 4096) = 18
  /\ Read(pre.mem, 4352) = 86
  /\ reg.pc = 4660


(* ------------------------------- branches ------------------------------ *)

BranchOpcodes == {16, 48, 80, 112, 144, 176, 208, 240}

\* branch instructions in the middle of a page, near its end, at address 0
\* and at the top of memory ($FFFD, $FFFE: the offset byte is the last one
\* before PC wraps)
BranchPCs == {0, 32768, 33020, 65533, 65534}

BranchOffsets == {0, 2, 127, 128, 253, 254}

\* N, V, Z, C all clear, all set, and each one set alone
BranchStatuses == {36, 231, 164, 100, 38, 37}

InitBranch ==
  \E op \in BranchOpcodes, pc \in BranchPCs, off \in BranchOffsets,
     p \in BranchStatuses :
    UnitInit(Regs(pc, 253, 0, 0, 0, p), Bytes(pc, <<op, off>>))

SpecBranch == InitBranch /\ [][NextUnit]_vars

\* the last step executed a branch that was taken to another page
BranchCrossedPage ==
  /\ lastOp = "step"
  /\ fetched \in BranchOpcodes
  /\ did_pg_cross(pre.reg.pc + 2, reg.pc)

\* what step returns for the same branch, from the same state, when its
\* offset byte is 0: taken (same flags) to the same page
SamePageCost ==
  step([reg |-> pre.reg, cycles |-> pre.cycles, state |-> pre.state,
        mem |-> Write(pre.mem, u16(pre.reg.pc + 1), 0),
        interrupt |-> pre.interrupt, serviced |-> <<>>, fetched |-> -1,
        ret |-> 0]).ret

\* C18: a taken branch to a different page costs exactly 1 cycle more than
\* a taken branch of the same opcode to the same page.
C18_CrossPageBranchOneMore ==
  BranchCrossedPage => ret = SamePageCost + 1


(* ---------------------------- WideNES runs ----------------------------- *)

\* number of frame ends and of other handler calls explored per run
MaxFrames == 2

MaxEvents == 1

Wide ==
  [tiles |-> tiles, pad |-> pad, last_scroll |-> last_scroll,
   curr_scroll |-> curr_scroll, scroll |-> scroll, h |-> h, pan |-> pan]

InstallWide(w) ==
  /\ tiles' = w.tiles
  /\ pad' = w.pad
  /\ last_scroll' = w.last_scroll
  /\ curr_scroll' = w.curr_scroll
  /\ scroll' = w.scroll
  /\ h' = w.h
  /\ pan' = w.pan
  /\ UNCHANGED cpuVars

\* a handler call other than the frame end: op with its inputs args joins
\* the log, together with ppuscroll.curr as the handler found it
Called(op, args) ==
  /\ log' = Append(log, [op |-> op, args |-> args, ppuscroll |-> h.ppuscroll.curr])
  /\ wideOp' = op
  /\ nevents' = nevents + 1
  /\ UNCHANGED <<frame, nframes>>

\* values the game writes to PPUSCROLL
ScrollValues == {8, 250}

\* what the PPU holds when PPUADDR is written: a scanline in the top half,
\* in the bottom half, in vertical blank, and a write with rendering off
AddrWrites ==
  {[scroll_latch |-> 0, scanline |-> 100, is_rendering |-> TRUE, coarse |-> 31],
   [scroll_latch |-> 0, scanline |-> 200, is_rendering |-> TRUE, coarse |-> 31],
   [scroll_latch |-> 0, scanline |-> 250, is_rendering |-> TRUE, coarse |-> 3],
   [scroll_latch |-> 1, scanline |-> 100, is_rendering |-> FALSE, coarse |-> 3]}

\* scanline latches of the MMC3: top half, bottom half, beyond the screen
IrqLatches == {31, 200, 255}

\* the PPU registers a write handler reads
Ppu(scroll_latch, scanline, is_rendering, coarse) ==
  [scroll_latch |-> scroll_latch, scanline |-> scanline, is_rendering |-> is_rendering,
   coarse_x |-> coarse, coarse_y |-> coarse]

\* register writes [addr, val, ppu]: to PPUSCROLL with either latch, to
\* PPUADDR, and one to PPUMASK
ScrollWrites(scrolls) ==
  {[addr |-> PPUSCROLL, val |-> v, ppu |-> Ppu(l, 241, FALSE, 0)] :
     v \in scrolls, l \in {0, 1}}

PpuAddrWrites(addrs) ==
  {[addr |-> PPUADDR, val |-> 0,
    ppu |-> Ppu(a.scroll_latch, a.scanline, a.is_rendering, a.coarse)] : a \in addrs}

MaskWrites == {[addr |-> PPUMASK, val |-> 30, ppu |-> Ppu(0, 241, FALSE, 0)]}

\* ppu_write_start_handler(addr, val)
WriteStartOf(max, writes) ==
  /\ nevents < max
  /\ \E wr \in writes :
       /\ InstallWide(ppu_write_start_handler(Wide, wr.addr, wr.val))
       /\ Called("write_start", wr)

\* ppu_write_end_handler(addr, val), with the PPU registers it reads
WriteEndOf(max, writes) ==
  /\ nevents < max
  /\ \E wr \in writes :
       /\ InstallWide(ppu_write_end_handler(Wide, wr.addr, wr.val, wr.ppu))
       /\ Called("write_end", wr)

\* the MMC3 when it raises the IRQ: enabled with one of the latches, or
\* disabled
Irqs(latches) ==
  {[irq_enabled |-> TRUE, irq_latch |-> l] : l \in latches}
  \cup {[irq_enabled |-> FALSE, irq_latch |-> 0]}

\* mmc3_irq_handler(mmc3, irq_enabled); irq_latch is mmc3->peek_irq_latch()
Mmc3IrqOf(max, irqs) ==
  /\ nevents < max
  /\ \E irq \in irqs :
       /\ InstallWide(mmc3_irq_handler(Wide, irq.irq_enabled, irq.irq_latch))
       /\ Called("mmc3_irq", irq)

\* the events input() is given: key presses and the mouse
KeyEvents(keys, mods) ==
  {[type |-> "SDL_KEYDOWN", key |-> k, mod_shift |-> m] : k \in keys, m \in mods}

MouseEvents ==
  {[type |-> "SDL_MOUSEBUTTONDOWN", x |-> 3, y |-> 4],
   [type |-> "SDL_MOUSEBUTTONUP", x |-> 3, y |-> 4],
   [type |-> "SDL_MOUSEMOTION", x |-> 5, y |-> 1],
   [type |-> "SDL_MOUSEWHEEL", x |-> 0, y |-> 1],
   [type |-> "SDL_MOUSEWHEEL", x |-> 0, y |-> -2]}

\* calls of input: event, and in_menu, whether the menu has the focus
InputCalls(events, menu) == {[event |-> e, in_menu |-> m] : e \in events, m \in menu}

\* input(event); with in_menu the handler returns early
InputOf(max, calls) ==
  /\ nevents < max
  /\ \E call \in calls :
       /\ InstallWide(input(Wide, call.event, call.in_menu))
       /\ Called("input", call)

\* One axis of what the projection wrote: the distinct destination
\* coordinates <<t, d>>, as the bag of the <<t, b>> they lie in.
axis_written(from, to, origin, size) ==
  LET tile(s) == (origin + s) \div size
      block(td) == <<td[1], td[2] \div 16>>
  IN BagOfAll(block, SetToBag({<<tile(s), dest(origin, tile(s), size, s)>> :
                                 s \in from..(to - 1)}))

\* what the block commit finds: the fill arrays of the tiles it visits, and
\* per axis the destination coordinates this frame's projection wrote
FrameView(w, p) ==
  [fill |-> [t \in {u \in CommitTiles(w) : TileAt(p.tiles, u) # Null} |-> p.tiles[t].fill],
   x |-> axis_written(w.pad.total.l, 256 - w.pad.total.r, w.scroll.x, 256),
   y |-> axis_written(w.pad.total.t, 240 - w.pad.total.b, w.scroll.y, 240)]

\* what the frame end found on entry: the handler calls since the frame end
\* before it, and which of the two latched heuristics it ran
FrameEntry ==
  [log |-> log, zelda |-> zelda_midframe(Wide), mmc3 |-> h.mmc3_irq.happened]

\* ppu_frame_end_handler: heuristics, scroll update, projection, block
\* commit (each \E over a one-element set names an intermediate value).
\* The background picture of a frame is identified by the frame's number.
FrameEndOf(max, masks) ==
  /\ nframes < max
  /\ \E ppumask_m \in masks :
       \E w1 \in {update_scroll(heuristics(Wide, ppumask_m))} :
         \E xs \in {column_hits(w1)}, ys \in {row_hits(w1)} :
           \E p \in {project(w1, xs, ys, nframes + 1)} :
             /\ InstallWide(commit_blocks(p))
             /\ frame' = FrameView(w1, p) @@ FrameEntry
  /\ log' = <<>>
  /\ wideOp' = "frame_end"
  /\ nframes' = nframes + 1
  /\ UNCHANGED nevents

\* PPUSCROLL writes, and a PPUADDR write mid-frame
WriteEnd ==
  WriteEndOf(MaxEvents,
             ScrollWrites(ScrollValues)
             \cup PpuAddrWrites({a \in AddrWrites : a.scanline = 100 /\ a.is_rendering}))

Mmc3Irq == Mmc3IrqOf(MaxEvents, Irqs(IrqLatches))

\* the keys that clear the tiles and that lower the bottom padding
Input == InputOf(MaxEvents, InputCalls(KeyEvents({"k", "c"}, {FALSE}), {FALSE}))

FrameEnd == FrameEndOf(MaxFrames, BOOLEAN)

NextWide == WriteEnd \/ Mmc3Irq \/ Input \/ FrameEnd

InitWide ==
  UnitInit(power_cycle([reg |-> Regs(32768, 0, 0, 0, 0, 0),
                        cycles |-> 0, state |-> Running]).reg,
           Image)

SpecWide == InitWide /\ [][NextWide]_vars

\* C19: after every frame end, whatever writes, IRQs, key presses and frame
\* ends came before and whatever the scroll is (negative too), fill[bx][by]
\* is 0 for every block of every tile in the tile map.
C19_FillClearedAfterFrame ==
  (wideOp = "frame_end") =>
    \A t \in DOMAIN tiles :
      tiles[t] # Null => \A b \in Blocks : FillAt(tiles[t], b) = 0

\* a second frame, at a negative scroll, with a committed and a partly
\* covered block behind it
C19_Witness ==
  /\ wideOp = "frame_end"
  /\ nframes = 2
  /\ scroll.x < 0
  /\ \E t \in DOMAIN tiles :
       /\ tiles[t] # Null
       /\ tiles[t].done # {}
  /\ \E t \in DOMAIN frame.fill :
       \E b \in DOMAIN frame.fill[t] : frame.fill[t][b] \in 1..255


\* C20: when the blocks are committed, fill[bx][by] of each visited tile is
\* the number of distinct pixels of that block this frame's projection wrote
\* (no destination pixel is written twice), so it lies in 0..256 and is 256
\* exactly when every pixel of the block was updated this frame.
C20_FillCountsPixelsWritten ==
  (wideOp = "frame_end") =>
    \A t \in DOMAIN frame.fill :
      \A b \in Blocks :
        LET fill == IF b \in DOMAIN frame.fill[t] THEN frame.fill[t][b] ELSE 0
            nx == CopiesIn(<<t[1], b[1]>>, frame.x)
            ny == CopiesIn(<<t[2], b[2]>>, frame.y)
        IN /\ nx \in 0..16 /\ ny \in 0..16
           /\ fill = nx * ny
           /\ fill \in 0..256
           /\ fill = 256 <=> (nx = 16 /\ ny = 16)
           /\ fill = 256 => b \in tiles[t].done

\* a second frame that fills one block completely and another one partly
C20_Witness ==
  /\ wideOp = "frame_end"
  /\ nframes = 2
  /\ \E t \in DOMAIN frame.fill :
       /\ \E b \in DOMAIN frame.fill[t] : frame.fill[t][b] = 256
       /\ \E b \in DOMAIN frame.fill[t] :
            /\ frame.fill[t][b] \in 1..255
            /\ CopiesIn(<<t[1], b[1]>>, frame.x) \in 1..15


\* the tile at t before a step, a tile the step created counting as new
TileBefore(t) == IF TileAt(tiles, t) = Null THEN NewTile ELSE tiles[t]

\* fill[bx][by] of tile t as the block commit of the last frame end found it
FillAtCommit(t, b) ==
  IF t \in DOMAIN frame.fill /\ b \in DOMAIN frame.fill[t] THEN frame.fill[t][b] ELSE 0

\* the blocks of tile t whose fill the block commit of the last frame end
\* found at 256
CommittedBlocks(t) ==
  IF wideOp = "frame_end" /\ t \in DOMAIN frame.fill
  THEN {b \in DOMAIN frame.fill[t] : frame.fill[t][b] = 256}
  ELSE {}

\* the blocks in which two buffers differ
ChangedBlocks(before, after) ==
  {b \in DOMAIN before \cup DOMAIN after : RegionAt(before, b) # RegionAt(after, b)}

C21_Step ==
  \A t \in DOMAIN tiles' :
    (tiles'[t] # Null /\ tiles'[t] # TileBefore(t)) =>
      \E old \in {TileBefore(t)}, new \in {tiles'[t]}, committed \in {CommittedBlocks(t)'} :
        /\ ChangedBlocks(old.fb, new.fb) \subseteq committed
        /\ \A b \in committed : /\ b \in new.done
                                 /\ RegionAt(new.fb, b) = RegionAt(new.fb_new, b)
        /\ (new.done \ old.done) \subseteq committed
        /\ old.done \subseteq new.done

C21_State ==
  \A t \in DOMAIN tiles :
    tiles[t] # Null =>
      /\ \A b \in tiles[t].done :
           \E rect \in {tiles[t].fb[b][1]} :
             /\ Len(tiles[t].fb[b]) = 1
             /\ rect.nx = 16 /\ rect.ny = 16
             /\ rect.colour \in 1..nframes
      /\ \A b \in DOMAIN tiles[t].fb : b \in tiles[t].done \/ tiles[t].fb[b] = <<>>

\* C21: for every tile and block, the block's region of fb changes only in a
\* frame end in which the block's fill is 256, and is then equal to the
\* block's region of fb_new; done[bx][by] becomes true exactly in such a
\* frame end and stays true while the tile exists.  So the fb region of a
\* done block is one whole block as fb_new held it at a commit (a single
\* picture covers it), and the fb region of a block that is not done is all
\* zero.
C21_FbFollowsCommit == [][C21_Step]_vars /\ []C21_State

\* after two frames a block is done whose fb still holds the first frame
\* while the second frame painted a part of the block in fb_new
C21_Witness ==
  /\ wideOp = "frame_end"
  /\ \E t \in DOMAIN tiles :
       /\ tiles[t] # Null
       /\ \E b \in tiles[t].done :
            /\ tiles[t].fb[b] # tiles[t].fb_new[b]
            /\ tiles[t].fb[b][1].colour = 1
            /\ Len(tiles[t].fb_new[b]) = 2
       /\ \E b \in Blocks : b \notin tiles[t].done


(* ------------------------ WideNES heuristics runs ------------------------ *)
(* Runs of the write, IRQ and frame end handlers with several handler      *)
(* calls inside one frame.                                                 *)

\* number of write and IRQ handler calls explored per run
MaxLatchEvents == 2

\* number of frame ends explored per run
MaxLatchFrames == 1

\* a PPUSCROLL value at the distance 256 - fuzz from 0
LatchScrollValues == {246}

\* scanline latches of the MMC3: top half, bottom half
LatchIrqLatches == {31, 200}

WriteEndLatch ==
  WriteEndOf(MaxLatchEvents, ScrollWrites(LatchScrollValues) \cup PpuAddrWrites(AddrWrites))

Mmc3IrqLatch == Mmc3IrqOf(MaxLatchEvents, Irqs(LatchIrqLatches))

FrameEndLatch == FrameEndOf(MaxLatchFrames, {TRUE})

NextLatch == WriteEndLatch \/ Mmc3IrqLatch \/ FrameEndLatch

SpecLatch == InitWide /\ [][NextLatch]_vars

\* C22: in every frame end, whatever curr_scroll, last_scroll and pad.offset
\* are, the wrap-corrected scroll delta satisfies |dx| <= 255 - fuzz = 245
\* and |dy| <= 239 - fuzz = 229.
C22_ScrollDeltaBound ==
  (wideOp = "frame_end") => (Abs(scroll.dx) <= 245 /\ Abs(scroll.dy) <= 229)


\* the frame end saw nothing but register writes other than to PPUADDR
OnlyPlainWrites(calls) ==
  \A i \in DOMAIN calls : calls[i].op = "write_end" /\ calls[i].args.addr # PPUADDR

\* C23: from the initial engine state, with no PPUADDR write and no MMC3
\* IRQ, one frame end with ppuscroll.curr = (8, 0) gives scroll.x = 8,
\* scroll.dx = 8 and scroll.y = 0, there is a tile at (0, 0), and in every
\* tile done[bx][by] is true exactly for the blocks whose fill reached 256
\* in that frame.
C23_FirstFrameAtEight ==
  (/\ wideOp = "frame_end"
   /\ nframes = 1
   /\ OnlyPlainWrites(frame.log)
   /\ h.ppuscroll.curr = [x |-> 8, y |-> 0])
  => /\ scroll.x = 8 /\ scroll.dx = 8 /\ scroll.y = 0
     /\ TileAt(tiles, <<0, 0>>) # Null
     /\ \A t \in DOMAIN tiles :
          tiles[t] # Null =>
            \A b \in Blocks : b \in tiles[t].done <=> FillAtCommit(t, b) = 256

\* that frame: PPUSCROLL was written, columns 1..15 of tile (0, 0) are done,
\* its column 0 and the strip in tile (1, 0) are not
C23_Witness ==
  /\ wideOp = "frame_end"
  /\ nframes = 1
  /\ frame.log # <<>>
  /\ OnlyPlainWrites(frame.log)
  /\ h.ppuscroll.curr = [x |-> 8, y |-> 0]
  /\ tiles[<<0, 0>>].done = (1..15) \X (0..14)
  /\ FillAtCommit(<<0, 0>>, <<0, 0>>) \in 1..255
  /\ tiles[<<1, 0>>].done = {}
  /\ FillAtCommit(<<1, 0>>, <<0, 0>>) \in 1..255


\* C24: in every reachable state every coordinate <<tx, ty>> present in the
\* tile map belongs to a tile into which at least one pixel has been
\* written; the map never holds an entry for a coordinate that received no
\* pixel.
C24_EntriesHoldPaintedTiles ==
  \A t \in DOMAIN tiles :
    /\ tiles[t] # Null
    /\ tiles[t].fb_new # <<>>


\* the handler call that made the last step, as the log holds it
LastCall == log[Len(log)]

\* the step was input() clearing the tiles (the k key, outside the menu)
ClearedByUser ==
  /\ wideOp' = "input"
  /\ LastCall'.args.event.type = "SDL_KEYDOWN"
  /\ LastCall'.args.event.key = "k"
  /\ ~LastCall'.args.in_menu

\* the tile the first source pixel of the frame is projected into
CameraTile ==
  <<(scroll.x + pad.total.l) \div 256, (scroll.y + pad.total.t) \div 240>>

C25_Step ==
  /\ wideOp' \in {"write_start", "write_end", "mmc3_irq", "frame_end"} =>
       \A t \in DOMAIN tiles :
         /\ t \in DOMAIN tiles'
         /\ tiles[t] # Null => /\ tiles'[t] # Null
                               /\ tiles[t].done \subseteq tiles'[t].done
  /\ (\E t \in DOMAIN tiles : t \notin DOMAIN tiles') => ClearedByUser
  /\ ClearedByUser =>
       /\ tiles' = <<>>
       /\ UNCHANGED <<scroll, last_scroll, curr_scroll, pad>>
  /\ wideOp' = "frame_end" => TileAt(tiles', CameraTile') # Null

\* C25: over any sequence of write_end, mmc3_irq and frame_end calls the
\* set of tiles never loses a member and no done flag of an existing tile is
\* reset; only the user's clear action removes tiles, all of them at once,
\* and it leaves scroll, last_scroll and the paddings as they are, so that
\* the next frame end creates tiles again at the camera's coordinates.
C25_TilesOnlyClearedByUser == [][C25_Step]_vars

\* the tiles of the first frame were cleared, and the frame end that
\* followed created the tile under the camera again, from the second picture
C25_Witness ==
  /\ wideOp = "frame_end"
  /\ nframes = 2
  /\ Len(frame.log) = 1
  /\ frame.log[1].op = "input"
  /\ frame.log[1].args.event.key = "k"
  /\ TileAt(tiles, CameraTile) # Null
  /\ tiles[CameraTile].done # {}
  /\ \A b \in tiles[CameraTile].done : tiles[CameraTile].fb[b][1].colour = 2
  /\ pad.total.l = 8


(* ---------------------- WideNES input and write runs --------------------- *)
(* Runs of input, the two register write handlers and the frame end, with  *)
(* every key the handler knows and the mouse.                               *)

WriteStartInput ==
  WriteStartOf(MaxEvents, {[addr |-> PPUSCROLL, val |-> 8], [addr |-> PPUADDR, val |-> 0]})

WriteEndInput ==
  WriteEndOf(MaxEvents, ScrollWrites({8}) \cup PpuAddrWrites(AddrWrites) \cup MaskWrites)

\* the keys of the switch and one it does not know
Keys == {"escape", "k", "e", "3", "d", "c", "s", "a", "f", "g", "x"}

\* events that arrive while the menu is open
MenuEvents ==
  KeyEvents({"k", "s"}, {FALSE})
  \cup {[type |-> "SDL_MOUSEBUTTONDOWN", x |-> 3, y |-> 4],
        [type |-> "SDL_MOUSEWHEEL", x |-> 0, y |-> 1]}

InputInput ==
  InputOf(MaxEvents, InputCalls(KeyEvents(Keys, BOOLEAN) \cup MouseEvents, {FALSE})
                     \cup InputCalls(MenuEvents, {TRUE}))

FrameEndInput == FrameEndOf(MaxLatchFrames, {TRUE})

NextInput == WriteStartInput \/ WriteEndInput \/ InputInput \/ FrameEndInput

SpecInput == InitWide /\ [][NextInput]_vars

C26_Step ==
  LET call == LastCall'.args
  IN /\ (wideOp' = "write_end" /\ call.addr = PPUSCROLL) =>
          /\ call.ppu.scroll_latch = 1 => h' = [h EXCEPT !.ppuscroll.curr.x = call.val]
          /\ call.ppu.scroll_latch = 0 => h' = [h EXCEPT !.ppuscroll.curr.y = call.val]
          /\ UNCHANGED <<tiles, pad, last_scroll, curr_scroll, scroll, pan>>
     /\ (wideOp' = "write_end" /\ call.addr \notin {PPUSCROLL, PPUADDR}) =>
          UNCHANGED <<tiles, pad, last_scroll, curr_scroll, scroll, h, pan>>
     /\ wideOp' \in {"write_start", "write_end"} =>
          UNCHANGED <<tiles, pad, last_scroll, curr_scroll, scroll>>

\* C26: write_end(PPUSCROLL, val) sets ppuscroll.curr.x to val when the
\* scroll latch after the write is 1 and ppuscroll.curr.y when it is 0, and
\* changes nothing else; a write_end to an address other than PPUSCROLL and
\* PPUADDR changes no engine state; no write_end and no write_start ever
\* changes scroll, last_scroll, curr_scroll, the paddings or the tiles.
C26_WritesOnlyLatch == [][C26_Step]_vars

\* PPUSCROLL was written with the latch at 1 after a frame had made tiles
C26_Witness ==
  /\ wideOp = "write_end"
  /\ LastCall.args.addr = PPUSCROLL
  /\ LastCall.args.ppu.scroll_latch = 1
  /\ h.ppuscroll.curr = [x |-> 8, y |-> 0]
  /\ nframes = 1
  /\ \E t \in DOMAIN tiles : tiles[t] # Null /\ tiles[t].done # {}


(* ---------------------------- WideNES IRQ runs --------------------------- *)
(* Runs with several IRQs, a PPUSCROLL write and a mid-frame PPUADDR write  *)
(* inside one frame.                                                        *)

\* number of write and IRQ handler calls explored per run
MaxIrqEvents == 3

\* PPUSCROLL x := 246, and a PPUADDR write on scanline 100 while rendering
\* that latches new_scroll.y = 248
WriteEndIrq ==
  WriteEndOf(MaxIrqEvents,
             {wr \in ScrollWrites(LatchScrollValues) : wr.ppu.scroll_latch = 1}
             \cup PpuAddrWrites({a \in AddrWrites : a.scanline = 100 /\ a.is_rendering}))

\* IRQs with the latch in the top and in the bottom half
Mmc3IrqIrq ==
  Mmc3IrqOf(MaxIrqEvents, {irq \in Irqs(LatchIrqLatches) : irq.irq_enabled})

FrameEndIrq == FrameEndOf(MaxLatchFrames, {TRUE})

NextIrq == WriteEndIrq \/ Mmc3IrqIrq \/ FrameEndIrq

SpecIrq == InitWide /\ [][NextIrq]_vars

\* the on_scanline an mmc3_irq call latches
OnScanline(call) == IF call.args.irq_enabled THEN call.args.irq_latch ELSE 239

\* the positions of the mmc3_irq calls in a log
IrqCalls(calls) == {i \in DOMAIN calls : calls[i].op = "mmc3_irq"}

\* the largest member of a non-empty set of positions
Last(positions) == CHOOSE i \in positions : \A j \in positions : j <= i

\* curr_scroll as the Zelda branch leaves it
ScrollBeforeIrqBranch ==
  IF frame.zelda THEN [x |-> h.ppuscroll.curr.x, y |-> h.ppuaddr.new_scroll.y]
  ELSE h.ppuscroll.curr

\* C27, as stated: if since the previous frame end an mmc3_irq callback ran
\* with on_scanline >= 120, then at the frame end curr_scroll is ppuscroll.curr
\* as it was when the last callback with on_scanline >= 120 ran; if one ran
\* with on_scanline < 120, pad.guess.t is the on_scanline of the last of these.
C27_AnyLateIrqDecides ==
  (wideOp = "frame_end") =>
    LET late == {i \in IrqCalls(frame.log) : OnScanline(frame.log[i]) >= 120}
        early == {i \in IrqCalls(frame.log) : OnScanline(frame.log[i]) < 120}
    IN /\ late # {} => curr_scroll = frame.log[Last(late)].ppuscroll
       /\ (late = {} /\ early # {}) =>
            /\ pad.guess.t = OnScanline(frame.log[Last(early)])
            /\ curr_scroll = ScrollBeforeIrqBranch

\* C27: if mmc3_irq callbacks ran since the previous frame end and the last
\* of them had on_scanline >= 120 (peek_irq_latch() when enabled, else 239),
\* then at the frame end curr_scroll, x and y, is ppuscroll.curr as it was
\* when that last callback ran, whatever PPUSCROLL writes came later and
\* whether or not the Zelda branch ran in the same frame; if the last of
\* them had on_scanline < 120, curr_scroll is what the branches before left
\* (not scroll_pre_irq) and pad.guess.t is that on_scanline.
C27_LastIrqDecides ==
  (wideOp = "frame_end" /\ IrqCalls(frame.log) # {}) =>
    LET call == frame.log[Last(IrqCalls(frame.log))]
    IN IF OnScanline(call) >= 120
       THEN curr_scroll = call.ppuscroll
       ELSE /\ pad.guess.t = OnScanline(call)
            /\ curr_scroll = ScrollBeforeIrqBranch

\* an IRQ on scanline 200, then a PPUSCROLL write and a mid-frame PPUADDR
\* write: the frame end took the scroll from before the IRQ
C27_Witness ==
  /\ wideOp = "frame_end"
  /\ Len(frame.log) = 3
  /\ frame.log[1].op = "mmc3_irq"
  /\ OnScanline(frame.log[1]) >= 120
  /\ frame.zelda
  /\ curr_scroll = [x |-> 0, y |-> 0]
  /\ h.ppuscroll.curr.x = 246
  /\ h.ppuaddr.new_scroll.y = 248


\* pad.offset moved on exactly one side, by n or by -n
OneSideMoved(n) ==
  \E side \in {"l", "r", "t", "b"}, d \in {n, 0 - n} :
    pad'.offset = [pad.offset EXCEPT ![side] = @ + d]

C28_Step ==
  (wideOp' = "input") =>
    LET call == LastCall'.args
    IN /\ UNCHANGED <<scroll, last_scroll, curr_scroll, h>>
       /\ pad'.guess = pad.guess
       /\ pad'.total = pad.total
       /\ call.in_menu => UNCHANGED <<tiles, pad, pan>>
       /\ call.event.type = "SDL_KEYDOWN" =>
            /\ pan' = pan
            /\ \/ tiles' = tiles /\ pad' = pad
               \/ tiles' = tiles /\ OneSideMoved(IF call.event.mod_shift THEN 1 ELSE 8)
               \/ tiles' = <<>> /\ pad' = pad
       /\ call.event.type # "SDL_KEYDOWN" => UNCHANGED <<tiles, pad>>

\* C28: no input event changes scroll, last_scroll, curr_scroll, pad.guess,
\* pad.total or a heuristic latch: a key event changes only pad.offset (one
\* side, by 8 either way, by 1 with shift) or clears the tile map, a mouse
\* event changes only the pan and zoom state, and an input event that
\* arrives while the menu is open changes no engine state.
C28_InputTouchesOffsetsTilesPan == [][C28_Step]_vars

\* after a frame that made tiles and guessed a padding, shift-a moved the
\* left offset by one
C28_Witness ==
  /\ wideOp = "input"
  /\ LastCall.args.event.type = "SDL_KEYDOWN"
  /\ LastCall.args.event.key = "a"
  /\ LastCall.args.event.mod_shift
  /\ pad.offset = [l |-> -1, r |-> 0, t |-> 0, b |-> 0]
  /\ nframes = 1
  /\ \E t \in DOMAIN tiles : tiles[t] # Null


\* the positions of the PPUADDR write_end calls in a log
AddrCalls(calls) ==
  {i \in DOMAIN calls : calls[i].op = "write_end" /\ calls[i].args.addr = PPUADDR}

\* the write happened on a visible or pre-render scanline with rendering on
MidFrame(call) == call.args.ppu.scanline < 241 /\ call.args.ppu.is_rendering

\* C29: the frame end applies the Zelda heuristic exactly when a PPUADDR
\* write_end occurred since the previous frame end and the last such write
\* happened on a scanline < 241 with rendering enabled (a mid-frame write
\* followed by a write in vertical blank or with rendering off does not
\* count).  Applying it sets ppuaddr.active, cut_scanline := the scanline of
\* that write, curr_scroll.y := new_scroll.y, and pad.guess.t := cut_scanline
\* if cut_scanline < 120, else pad.guess.b := 239 - mmc3_irq.on_scanline;
\* the MMC3 branch, when an IRQ came in the same frame, runs after it.
C29_ZeldaIffLastWriteMidFrame ==
  (wideOp = "frame_end") =>
    LET writes == AddrCalls(frame.log)
        last == frame.log[Last(writes)]
        cut == last.args.ppu.scanline
        noIrq == IrqCalls(frame.log) = {}
    IN /\ frame.zelda <=> (writes # {} /\ MidFrame(last))
       /\ frame.zelda =>
            /\ h.ppuaddr.active
            /\ h.ppuaddr.cut_scanline = cut
            /\ noIrq => /\ curr_scroll = [x |-> h.ppuscroll.curr.x,
                                          y |-> h.ppuaddr.new_scroll.y]
                        /\ cut < 120 => pad.guess.t = cut
                        /\ cut >= 120 => pad.guess.b = 239 - h.mmc3_irq.on_scanline
       /\ (~frame.zelda /\ noIrq) => curr_scroll = h.ppuscroll.curr
       /\ (~frame.zelda /\ nframes = 1) => ~h.ppuaddr.active

\* a write with rendering off followed by a mid-frame write on scanline
\* 100: applied, the top 100 lines are padded away and y comes from PPUADDR
C29_Witness ==
  /\ wideOp = "frame_end"
  /\ Len(frame.log) = 2
  /\ AddrCalls(frame.log) = {1, 2}
  /\ ~MidFrame(frame.log[1])
  /\ frame.zelda
  /\ h.ppuaddr.cut_scanline = 100
  /\ pad.guess.t = 100
  /\ curr_scroll.y = 248


\* C30: after every frame end ppuaddr.did_change and mmc3_irq.happened are
\* false; so the Zelda branch (the MMC3 branch) of a frame end runs only if
\* a PPUADDR write_end (an mmc3_irq callback) came after the frame end
\* before it, and one callback never starts its heuristic in two frames.
C30_LatchesClearedEachFrame ==
  (wideOp = "frame_end") =>
    /\ ~h.ppuaddr.did_change
    /\ ~h.mmc3_irq.happened
    /\ frame.zelda => AddrCalls(frame.log) # {}
    /\ frame.mmc3 => IrqCalls(frame.log) # {}

\* the Zelda branch ran in the first frame (it left active and the cut
\* scanline behind) and, with no write in between, not in the second
C30_Witness ==
  /\ wideOp = "frame_end"
  /\ nframes = 2
  /\ nevents = 1
  /\ frame.log = <<>>
  /\ h.ppuaddr.active
  /\ h.ppuaddr.cut_scanline = 100
  /\ ~frame.zelda
  /\ ~frame.mmc3


(* ------------------ branch destination and cycle count ----------------- *)

\* the condition each branch opcode tests, on the status the step found
BranchTaken ==
  LET P(f) == GetFlag(pre.reg.p, f) = 1
  IN CASE fetched = 16 -> ~P(Flag.n)
       [] fetched = 48 -> P(Flag.n)
       [] fetched = 80 -> ~P(Flag.v)
       [] fetched = 112 -> P(Flag.v)
       [] fetched = 144 -> ~P(Flag.c)
       [] fetched = 176 -> P(Flag.c)
       [] fetched = 208 -> ~P(Flag.z)
       [] fetched = 240 -> P(Flag.z)
       [] OTHER -> FALSE

\* PC after the opcode and the offset byte have been consumed
BranchNext == (pre.reg.pc + 2) % 65536

BranchOffset == i8(Read(pre.mem, (pre.reg.pc + 1) % 65536))

BranchTarget == (BranchNext + BranchOffset) % 65536

\* C31: for every branch instruction, a false condition leaves PC at the
\* address following the offset byte and costs base_cycles; a true one
\* puts PC at (post-increment PC + sign-extended offset) mod 65536 and costs
\* base_cycles + 1, plus 2 more exactly when the target's high byte differs
\* from the post-increment PC's high byte, wraps around $0000/$FFFF included.
C31_BranchPcAndCycles ==
  (lastOp = "step" /\ fetched \in BranchOpcodes) =>
    LET base == Opcodes[fetched].cycles
        crossed == (BranchTarget \div 256) # (BranchNext \div 256)
    IN IF BranchTaken
       THEN /\ reg.pc = BranchTarget
            /\ ret = base + 1 + (IF crossed THEN 2 ELSE 0)
       ELSE /\ reg.pc = BranchNext
            /\ ret = base

\* BNE -3 at $0000 with Z clear: taken from $0002 to $FFFF, 2 + 1 + 2 cycles
C31_Witness ==
  /\ lastOp = "step"
  /\ fetched = 208
  /\ pre.reg.pc = 0
  /\ BranchTaken
  /\ BranchOffset = -3
  /\ reg.pc = 65535
  /\ ret = 5


(* ------------------------- page-cross cycle ---------------------------- *)

IndexedModes == {"absX", "absY", "indY"}

\* every opcode of the three indexed modes, with and without check_pg_cross,
\* and LDA zpg,X / LDA (zpg,X) / LDA abs / LDX zpg,Y for the other modes
PageOpcodes ==
  {op \in 0..255 : Opcodes[op].addrm \in IndexedModes} \cup {181, 161, 173, 182}

BaseLows == {0, 1, 128, 254, 255}

BaseHighs == {0, 16, 255}

IndexValues == {0, 1, 255}

\* the instruction at $8000; absolute modes carry the base address in the
\* operand, the indirect ones a pointer at $10 that holds it
InitPage ==
  \E op \in PageOpcodes, lo \in BaseLows, hi \in BaseHighs,
     x \in IndexValues, y \in IndexValues :
    LET image == IF Opcodes[op].addrm \in {"indY", "Xind"}
                 THEN Bytes(32768, <<op, 16>>) @@ Bytes(16, <<lo, hi>>)
                 ELSE Bytes(32768, <<op, lo, hi>>)
    IN UnitInit(Regs(32768, 253, 0, x, y, 36), image)

SpecPage == InitPage /\ [][NextUnit]_vars

\* the address before indexing, read from the memory the step found
BaseAddress ==
  LET arg == (pre.reg.pc + 1) % 65536
  IN IF Opcodes[fetched].addrm = "indY"
     THEN LET zp == Read(pre.mem, arg)
          IN Read(pre.mem, zp) + 256 * Read(pre.mem, (zp + 1) % 256)
     ELSE Read(pre.mem, arg) + 256 * Read(pre.mem, (arg + 1) % 65536)

IndexRegister == IF Opcodes[fetched].addrm = "absX" THEN pre.reg.x ELSE pre.reg.y

EffectiveAddress == (BaseAddress + IndexRegister) % 65536

PageCrossed == (BaseAddress \div 256) # (EffectiveAddress \div 256)

\* C32: for an opcode with check_pg_cross set and mode absX, absY or indY the
\* step costs base_cycles + 1 if and only if the un-indexed base address and
\* the effective address (base + index, wrapped to 16 bits) differ in their
\* high byte, a sum that wraps past $FFFF included; with check_pg_cross
\* clear, or in any other addressing mode, the step costs base_cycles.
C32_PageCrossCycle ==
  (lastOp = "step" /\ fetched \in PageOpcodes) =>
    LET opcode == Opcodes[fetched]
    IN IF opcode.check_pg_cross /\ opcode.addrm \in IndexedModes
       THEN /\ ret \in {opcode.cycles, opcode.cycles + 1}
            /\ (ret = opcode.cycles + 1) <=> PageCrossed
       ELSE ret = opcode.cycles

\* LDA $FFFF,X with X = 1: the sum wraps to $0000 and the step costs 4 + 1
C32_Witness ==
  /\ lastOp = "step"
  /\ fetched = 189
  /\ BaseAddress = 65535
  /\ pre.reg.x = 1
  /\ EffectiveAddress = 0
  /\ ret = 5


(* ------------------ WideNES: runs from chosen paddings ----------------- *)

\* pad.offset as key presses before the first frame leave it: below the
\* guess, zero, more than half the screen and more than the screen
PadOffsetsL == {-16, 0, 130, 264}

PadOffsetsR == {0, 130}

PadOffsetsT == {-8, 0, 248}

\* the engine as constructed, with the offsets the user has keyed in
InitPad ==
  \E l \in PadOffsetsL, r \in PadOffsetsR, t \in PadOffsetsT :
    /\ reg = power_cycle([reg |-> Regs(32768, 0, 0, 0, 0, 0),
                          cycles |-> 0, state |-> Running]).reg
    /\ cycles = 0
    /\ state = Running
    /\ mem = Image
    /\ interrupt = {}
    /\ lastOp = "init"
    /\ ret = 0
    /\ fetched = -1
    /\ serviced = <<>>
    /\ pre = [reg |-> reg, cycles |-> 0, state |-> Running, mem |-> Image,
              interrupt |-> {}]
    /\ hist = <<>>
    /\ ncalls = 0
    /\ nrequests = 0
    /\ tiles = <<>>
    /\ pad = [guess |-> [l |-> 0, r |-> 0, t |-> 0, b |-> 0],
              offset |-> [l |-> l, r |-> r, t |-> t, b |-> 0],
              total |-> [l |-> 0, r |-> 0, t |-> 0, b |-> 0]]
    /\ last_scroll = [x |-> 0, y |-> 0]
    /\ curr_scroll = [x |-> 0, y |-> 0]
    /\ scroll = [x |-> 0, y |-> 0, dx |-> 0, dy |-> 0]
    /\ h = [ppuscroll |-> [curr |-> [x |-> 0, y |-> 0]],
            mmc3_irq |-> [happened |-> FALSE, on_scanline |-> 239,
                          scroll_pre_irq |-> [x |-> 0, y |-> 0]],
            ppuaddr |-> [did_change |-> FALSE,
                         changed |-> [on_scanline |-> 0, while_rendering |-> FALSE],
                         active |-> FALSE, cut_scanline |-> 0,
                         new_scroll |-> [x |-> 0, y |-> 0]]]
    /\ pan = [active |-> FALSE, last_mouse_pos |-> [x |-> 0, y |-> 0],
              dx |-> 0, dy |-> 0, zoom |-> <<>>]
    /\ log = <<>>
    /\ wideOp = "init"
    /\ frame = [fill |-> <<>>, x |-> <<>>, y |-> <<>>, log |-> <<>>,
                zelda |-> FALSE, mmc3 |-> FALSE]
    /\ nframes = 0
    /\ nevents = 0

\* PPUSCROLL writes that send the camera left of and above the origin:
\* x = 250 and y = 235 are taken as wrapped steps of -6 and -5
PadWrites ==
  {wr \in ScrollWrites({235, 250}) :
     \/ wr.ppu.scroll_latch = 1 /\ wr.val = 250
     \/ wr.ppu.scroll_latch = 0 /\ wr.val = 235}

WriteEndPad == WriteEndOf(MaxEvents, PadWrites)

\* a scanline IRQ with latch 255: the bottom guess becomes 239 - 255
Mmc3IrqPad == Mmc3IrqOf(MaxEvents, {[irq_enabled |-> TRUE, irq_latch |-> 255]})

\* the key that clears the tiles
InputPad == InputOf(MaxEvents, InputCalls(KeyEvents({"k"}, {FALSE}), {FALSE}))

FrameEndPad == FrameEndOf(MaxFrames, {FALSE})

NextPad == WriteEndPad \/ Mmc3IrqPad \/ InputPad \/ FrameEndPad

SpecPad == InitPad /\ [][NextPad]_vars

\* one axis of the projection loop, for (s = from; s < 256 - to ...): every
\* visited source coordinate s is on the screen and its destination d in
\* tile t is inside the tile, in block 0..blocks-1, with t*size + d = origin + s
AxisInRange(from, upto, origin, size, blocks) ==
  \A s \in from..(upto - 1) :
    LET t == (origin + s) \div size
        d == dest(origin, t, size, s)
    IN /\ 0 <= s /\ s < size
       /\ 0 <= d /\ d < size
       /\ 0 <= d \div 16 /\ d \div 16 < blocks
       /\ t * size + d = origin + s

\* the block indexes and pixel rectangles a tile holds are those of a
\* 16 x 15 grid of 16 x 16 blocks
TileInRange(tile) ==
  /\ DOMAIN tile.fill \subseteq Blocks
  /\ DOMAIN tile.fb_new \subseteq Blocks
  /\ \A b \in DOMAIN tile.fb_new :
       \A i \in 1..Len(tile.fb_new[b]) :
         LET rect == tile.fb_new[b][i]
         IN /\ 0 <= rect.x /\ rect.x + rect.nx <= 16
            /\ 0 <= rect.y /\ rect.y + rect.ny <= 16

\* C33: pixel projection never indexes out of range: in every reachable
\* state, for any pad.offset (negative or larger than the screen),
\* pad.total.{l,r,t,b} >= 0, so every visited source pixel has 0 <= sx < 256
\* and 0 <= sy < 240; and for every scroll value (negative included) the
\* destination has 0 <= dx < 256, 0 <= dy < 240, 0 <= bx < 16, 0 <= by < 15
\* with tx*256 + dx = scroll.x + sx and ty*240 + dy = scroll.y + sy.
C33_ProjectionInRange ==
  /\ pad.total.l >= 0 /\ pad.total.r >= 0 /\ pad.total.t >= 0 /\ pad.total.b >= 0
  /\ (wideOp = "frame_end") =>
       /\ AxisInRange(pad.total.l, 256 - pad.total.r, scroll.x, 256, 16)
       /\ AxisInRange(pad.total.t, 240 - pad.total.b, scroll.y, 240, 15)
       /\ \A k \in BagToSet(frame.x) : k[2] \in 0..15
       /\ \A k \in BagToSet(frame.y) : k[2] \in 0..14
       /\ \A t \in DOMAIN tiles : tiles[t] # Null => TileInRange(tiles[t])

\* a frame with the camera left of the origin, a left offset below the
\* guess (clamped to padding 0) and pixels projected into tile column -1
C33_Witness ==
  /\ wideOp = "frame_end"
  /\ scroll.x < 0
  /\ pad.guess.l + pad.offset.l < 0
  /\ pad.total.l = 0
  /\ pad.guess.t + pad.offset.t < 0
  /\ \E t \in DOMAIN tiles : t[1] = -1 /\ tiles[t] # Null /\ tiles[t].fb_new # <<>>


(* --------------- WideNES: heuristics over several frames --------------- *)

\* PPUADDR written mid-frame on scanline 4 and on scanline 200
ZeldaAddrWrites ==
  {[scroll_latch |-> 0, scanline |-> 4, is_rendering |-> TRUE, coarse |-> 31],
   [scroll_latch |-> 0, scanline |-> 200, is_rendering |-> TRUE, coarse |-> 31]}

\* the PPUADDR writes, and PPUSCROLL y := 120
WriteEndZelda ==
  WriteEndOf(MaxLatchEvents,
             PpuAddrWrites(ZeldaAddrWrites)
             \cup {wr \in ScrollWrites({120}) : wr.ppu.scroll_latch = 0})

\* scanline IRQs in the top and in the bottom half
Mmc3IrqZelda ==
  Mmc3IrqOf(MaxLatchEvents, {[irq_enabled |-> TRUE, irq_latch |-> l] : l \in {31, 200}})

FrameEndZelda == FrameEndOf(MaxFrames, {TRUE})

NextZelda == WriteEndZelda \/ Mmc3IrqZelda \/ FrameEndZelda

SpecZelda == InitWide /\ [][NextZelda]_vars

\* scroll_dy of a frame end before the anti-jump rule: the difference of
\* the new and the old 8-bit observation, wrapped by 240 beyond the
\* threshold of the new padding
WrappedDy ==
  LET dy == curr_scroll'.y - last_scroll.y
      thresh_h == (240 - pad'.total.t - pad'.total.b) - 10
  IN IF dy > thresh_h THEN dy - 240
     ELSE IF 0 - dy > thresh_h THEN dy + 240
     ELSE dy

C34_Step ==
  /\ h.ppuaddr.active => h'.ppuaddr.active
  /\ (h'.ppuaddr.active # h.ppuaddr.active
      \/ h'.ppuaddr.cut_scanline # h.ppuaddr.cut_scanline) =>
       (wideOp' = "frame_end" /\ frame'.zelda)
  /\ (pad'.guess.t # pad.guess.t \/ pad'.guess.b # pad.guess.b) =>
       (wideOp' = "frame_end" /\ (frame'.zelda \/ frame'.mmc3))
  /\ (wideOp' = "frame_end" /\ h'.ppuaddr.active) =>
       /\ scroll'.dy = IF WrappedDy > h'.ppuaddr.cut_scanline
                          \/ 0 - WrappedDy > h'.ppuaddr.cut_scanline
                       THEN 0 ELSE WrappedDy
       /\ scroll'.y = scroll.y + scroll'.dy

\* C34: heuristic outcomes persist across frames: frame_end never resets
\* ppuaddr.active, ppuaddr.cut_scanline, pad.guess.t or pad.guess.b; once
\* the Zelda heuristic has fired, ppuaddr.active stays true in every later
\* frame and the anti-jump rule (dy zeroed when |dy| > cut_scanline) is
\* applied with the last recorded cut_scanline even in frames with no
\* PPUADDR write, and a top/bottom pad guess stays in force until a later
\* heuristic overwrites it.
C34_HeuristicsPersist == [][C34_Step]_vars

\* the second frame end, after a first one in which the Zelda heuristic fired
\* on scanline 4: no PPUADDR write since, PPUSCROLL moved y from 248 to 120,
\* and the camera stayed where it was
C34_Witness ==
  /\ wideOp = "frame_end"
  /\ nframes = 2
  /\ ~frame.zelda
  /\ \A i \in DOMAIN frame.log : frame.log[i].args.addr # PPUADDR
  /\ h.ppuaddr.active
  /\ h.ppuaddr.cut_scanline = 4
  /\ pad.guess.t = 4
  /\ last_scroll.y = 120
  /\ scroll.dy = 0
  /\ scroll.y = 0


(* ------------------- WideNES: camera and scroll register --------------- *)

C35_Step ==
  (nframes' = nframes + 1) =>
    /\ last_scroll' = curr_scroll'
    /\ scroll'.x = scroll.x + scroll'.dx
    /\ scroll'.x % 256 = last_scroll'.x

\* C35: after every frame_end, last_scroll equals curr_scroll, scroll.x is
\* its previous value plus scroll.dx, and the global camera stays congruent
\* to the 8-bit register horizontally, scroll.x mod 256 = last_scroll.x, for
\* any sequence of events, pad offsets and tile clears.
C35_CameraFollowsRegister ==
  /\ [][C35_Step]_vars
  /\ []((wideOp = "frame_end") =>
          (last_scroll = curr_scroll /\ scroll.x % 256 = last_scroll.x))

\* second frame end with a left offset larger than the screen, after a tile
\* clear: the register went from 0 to 250 or stayed, the camera moved a whole
\* screen left at least once
C35_Witness ==
  /\ wideOp = "frame_end"
  /\ nframes = 2
  /\ pad.offset.l = 264
  /\ scroll.x < -255
  /\ scroll.dx = -256
  /\ \E i \in DOMAIN frame.log : frame.log[i].op = "input"

====
